---- MODULE Spec2Model ----
(***************************************************************************)
(* Model of generate_quiz_from_analysis_batched, the count-accurate        *)
(* batched quiz generator of src/modules/content_generator.py.             *)
(*                                                                         *)
(* A question is a record [question_text, question_type]; question_text is *)
(* a sequence of one-character strings so that _norm can be modelled by    *)
(* what it does.  generate_quiz (the oracle) is the environment: a call    *)
(* either raises or returns a list of validated questions.                 *)
(*                                                                         *)
(* The module also models the upload signature and the analysis cache of   *)
(* src/main.py (_compute_upload_signature, render_ingestion_step,          *)
(* render_extraction_step): strings are sequences of one-character         *)
(* strings, an uploaded file is a record [name, content, closed, pos].     *)
(*                                                                         *)
(* Further sections model _validate_question, the play mode of src/main.py *)
(* (start_game, process_answer, render_play_mode), the editor conversions  *)
(* quiz_to_dataframe and dataframe_to_quiz, and create_json_export and     *)
(* import_from_json of src/modules/exporter.py.                            *)
(***************************************************************************)
EXTENDS Integers, Sequences, FiniteSets, TLC

\* ---------------------------------------------------------------- bounds
MaxTarget == 1        \* Spec: each of mc_count, tf_count, sa_count is in 0..MaxTarget
MaxBatch == 2         \* Spec: batch_size is in 1..MaxBatch
MaxResp == 2          \* Spec: a returned batch holds at most MaxResp questions
MaxTargetExact == 11  \* SpecExact: mc_count is in 0..MaxTargetExact
MaxSideExact == 1     \* SpecExact: tf_count and sa_count are in 0..MaxSideExact
MaxBatchExact == 14   \* SpecExact: batch_size is in 1..MaxBatchExact
MaxTargetSame == 3    \* SpecSame: each target is in 0..MaxTargetSame
MaxBatchSame == 3     \* SpecSame: batch_size is in 1..MaxBatchSame
MaxTargetFresh == 4   \* SpecFresh: mc_count is in 0..MaxTargetFresh
MaxSideFresh == 1     \* SpecFresh: tf_count and sa_count are in 0..MaxSideFresh
MaxBatchFresh == 2    \* SpecFresh: batch_size is in 1..MaxBatchFresh
MaxRemaining == 60    \* the allocator is also compared on remaining in 1..MaxRemaining
MaxTargetRaw == 1     \* SpecRaw: each target is in 0..MaxTargetRaw
MaxBatchRaw == 2      \* SpecRaw: batch_size is in 1..MaxBatchRaw
MaxRespRaw == 2       \* SpecRaw: the oracle writes at most MaxRespRaw records per call
MaxFiles == 2         \* SpecApp: an upload holds 1..MaxFiles files
MaxFilesUpload == 3   \* SpecUpload: an upload holds 1..MaxFilesUpload files
MaxTargetNear == 2    \* SpecNear: each target is in 0..MaxTargetNear
MaxBatchNear == 2     \* SpecNear: batch_size is in 1..MaxBatchNear
MaxRespNear == 2      \* SpecNear: a returned batch holds at most MaxRespNear questions
MaxLenText == 3       \* _norm is compared on every text of up to MaxLenText characters
MaxQuiz == 3          \* SpecPlay: the quiz holds 0..MaxQuiz questions
MaxPlanned == 8       \* SpecLegacy: mc_total, tf_total, sa_total are in 0..MaxPlanned
MaxTargetTwice == 1    \* SpecTwice: each target is in 0..MaxTargetTwice
MaxBatchTwice == 2     \* SpecTwice: batch_size is in 1..MaxBatchTwice
MaxRespTwice == 2      \* SpecTwice: a returned batch holds 0..MaxRespTwice questions
MaxScripted == 4       \* SpecTwice: after MaxScripted calls the oracle returns []
MaxQuizEditor == 2     \* SpecEditor: the generated quiz holds 1..MaxQuizEditor questions
MaxQuizJson == 2       \* SpecJson: the exported quiz holds 0..MaxQuizJson questions

\* ------------------------------------------------------------- data model
QuestionTypes == {"multiple_choice", "true_false", "short_answer"}

\* expected_type = {"mc": ..., "tf": ..., "sa": ...}[type_code]
expected_type(type_code) ==
    CASE type_code = "mc" -> "multiple_choice"
      [] type_code = "tf" -> "true_false"
      [] type_code = "sa" -> "short_answer"

Min(a, b) == IF a <= b THEN a ELSE b
Max(a, b) == IF a >= b THEN a ELSE b

\* math.ceil(a / b) for integers a >= 0, b >= 1
CeilDiv(a, b) == (a + b - 1) \div b

\* ------------------------------------------------------------ _norm
\* Characters matched by str.strip() and by the regular expression \s.
IsSpace(c) == c \in {" ", "\t"}

\* str.lower() on one character of the modelled alphabet.
UpperCase ==
    << "A", "B", "C", "D", "E", "F", "G", "H", "I", "J", "K", "L", "M",
       "N", "O", "P", "Q", "R", "S", "T", "U", "V", "W", "X", "Y", "Z" >>

LowerCase ==
    << "a", "b", "c", "d", "e", "f", "g", "h", "i", "j", "k", "l", "m",
       "n", "o", "p", "q", "r", "s", "t", "u", "v", "w", "x", "y", "z" >>

\* The lower-case letter of every upper-case letter
LowerOf == [c \in {UpperCase[i] : i \in 1..26} |->
               LowerCase[CHOOSE i \in 1..26 : UpperCase[i] = c]]

LowerChar(c) == IF c \in DOMAIN LowerOf THEN LowerOf[c] ELSE c

RECURSIVE LStrip(_)
LStrip(s) ==
    IF s = <<>> THEN <<>>
    ELSE IF IsSpace(Head(s)) THEN LStrip(Tail(s)) ELSE s

RECURSIVE RStrip(_)
RStrip(s) ==
    IF s = <<>> THEN <<>>
    ELSE IF IsSpace(s[Len(s)]) THEN RStrip(SubSeq(s, 1, Len(s) - 1)) ELSE s

\* str.strip()
Strip(s) == RStrip(LStrip(s))

\* str.lower()
Lower(s) == [i \in 1..Len(s) |-> LowerChar(s[i])]

\* re.sub(r"\s+", " ", s): every maximal run of whitespace becomes one space.
RECURSIVE CollapseWs(_)
CollapseWs(s) ==
    IF s = <<>> THEN <<>>
    ELSE IF IsSpace(Head(s))
         THEN <<" ">> \o CollapseWs(LStrip(Tail(s)))
         ELSE <<Head(s)>> \o CollapseWs(Tail(s))

\* _norm without the re.sub call
NormNoCollapse(s) == Lower(Strip(s))

\* _norm without the .lower() call
NormNoLower(s) == CollapseWs(Strip(s))

\* _norm: s = (s or "").strip().lower(); s = re.sub(r"\s+", " ", s)
_norm(s) == CollapseWs(Lower(Strip(s)))

\* ------------------------------------------------------------ session state
VARIABLES
    mc_count, tf_count, sa_count,   \* the requested counts (int(...) of the arguments)
    batch_size,                     \* maximum questions per generate_quiz call
    all_questions,                  \* accepted questions, in acceptance order
    seen_questions,                 \* set of _norm(question_text) of accepted questions
    progress,                       \* arguments of every progress_callback invocation
    pc,                             \* "mc" | "tf" | "sa": at the while test of that
                                    \* _generate_for_type call; "topup": line 539;
                                    \* "trim": line 566; "done": returned;
                                    \* "raised": an exception left the function
    attempts, stagnant_rounds,      \* locals of the running _generate_for_type
    request,                        \* the generate_quiz call in flight, or NoRequest
    calls,                          \* generate_quiz calls made by the running phase
    total_calls,                    \* generate_quiz calls made by the session
    failed,                         \* TRUE once a generate_quiz call has raised
    exact,                          \* TRUE while every call so far returned exactly
                                    \* what was requested (IsExact)
    dup_offered,                    \* TRUE once a returned batch repeated a text the
                                    \* session had accepted (OffersDuplicate)
    result,                         \* the returned list (<<>> until pc = "done")
    dropped,                        \* TRUE once _validate_question has returned None
                                    \* for a record without question_text or
                                    \* correct_answer (missing or empty)
    round_added                     \* what the latest round of the running loop
                                    \* accepted (added), -1 before its first round

\* st.session_state of src/main.py, and what the run in progress sees
VARIABLES
    wizard_step,                    \* "ingestion" | "extraction" | "editor" (the
                                    \* editor and every step after it)
    uploaded_files,                 \* st.session_state.uploaded_files (<<>>: None)
    upload_signature,               \* st.session_state.upload_signature, or None
    analysis_signature,             \* st.session_state.analysis_signature, or None
    analysis_result,                \* st.session_state.analysis_result, or None
    api_key,                        \* the key render_sidebar returns to this run
    last_pass,                      \* what the last run of render_extraction_step
                                    \* did: "cached" | "analyzed" | "api_failed" |
                                    \* "rejected", or "none"
    pass_parity,                    \* flips at every run of render_extraction_step
                                    \* that gets to line 620
    analyzed_files,                 \* the files of the last analysis that succeeded
    forced                          \* TRUE from a click on Re-analyze until the
                                    \* upload or the stored result next changes

\* One call of _validate_question from the loop of generate_quiz (line 203)
VARIABLES
    q_dict,                         \* the dict q handed to _validate_question, as
                                    \* the caller holds it
    q_passed,                       \* what q held when the call was made
    validated,                      \* validated_q: what the call returned
    validating                      \* TRUE until the call has returned

\* st.session_state of the game of src/main.py (wizard_step is shared)
VARIABLES
    game_mode,                      \* "setup" | "play"
    quiz_data,                      \* the questions of the quiz
    current_question_index,
    score, streak, max_streak,
    wrong_answers,                  \* the questions answered wrongly, in order
    answer_submitted,
    selected_answer,                \* index of the clicked option, or None
    user_text_answer,               \* the submitted text ("" is <<>>)
    answered                        \* the process_answer calls of the game: for
                                    \* each, the question index and is_correct

\* generate_full_quiz of src/backend.py
VARIABLES
    mc_total, tf_total, sa_total,   \* the arguments
    batch_num,                      \* the loop variable (0 before the first batch)
    legacy_len,                     \* len(all_questions)
    mc_remaining, tf_remaining, sa_remaining,
    in_batch,                       \* the generate_quiz_batch call in flight, or
                                    \* NoBatch
    planned,                        \* per type, the counts requested so far
    batch_exact,                    \* TRUE while every batch so far held exactly
                                    \* the requested questions of each type
    legacy_pc                       \* "loop" | "done" | "raised"

\* Two calls of generate_quiz_from_analysis_batched, one after the other
VARIABLES
    run,                            \* 1: the first call is running; 2: the second
    received,                       \* the requests generate_quiz has received from
                                    \* the running call, in order
    outcomes,                       \* what generate_quiz did on each request of the
                                    \* first call: -1 (raised) or the number of
                                    \* questions it returned
    first_run                       \* the requests and the returned list of the
                                    \* first call, once it has returned

\* The editor step of src/main.py (quiz_data is the one of the game)
VARIABLES
    quiz_df,                        \* st.session_state.quiz_df: the rows, or None
    generated                       \* the list generate_quiz_from_analysis_batched
                                    \* returned (line 844)

\* create_json_export and import_from_json of src/modules/exporter.py
VARIABLES
    json_string,                    \* the text handed to import_from_json, or None
    exported,                       \* the arguments create_json_export wrote it
                                    \* from, or None for a text of another origin
    imported                        \* what import_from_json returned or raised, or
                                    \* None before the call

normalizer == <<q_dict, q_passed, validated, validating>>

game == <<game_mode, quiz_data, current_question_index, score, streak, max_streak,
          wrong_answers, answer_submitted, selected_answer, user_text_answer,
          answered>>

legacy == <<mc_total, tf_total, sa_total, batch_num, legacy_len, mc_remaining,
            tf_remaining, sa_remaining, in_batch, planned, batch_exact, legacy_pc>>

\* The components a generation session and the wizard leave alone
twice == <<run, received, outcomes, first_run>>

\* The components added to the ones above
editor == <<quiz_df, generated>>

exporter == <<json_string, exported, imported>>

extra == <<twice, editor, exporter>>

beside == <<normalizer, game, legacy, extra>>

app == <<wizard_step, uploaded_files, upload_signature, analysis_signature,
         analysis_result, api_key, last_pass, pass_parity, analyzed_files, forced>>

session == <<mc_count, tf_count, sa_count, batch_size, all_questions, seen_questions,
             progress, pc, attempts, stagnant_rounds, request, calls, total_calls,
             failed, exact, dup_offered, result, dropped, round_added>>

vars == <<session, app, beside>>

config == <<mc_count, tf_count, sa_count, batch_size>>

NoRequest == [num_questions |-> 0, question_type |-> "none"]

\* total_requested = int(mc_count) + int(tf_count) + int(sa_count)
total_requested == mc_count + tf_count + sa_count

\* the target argument of _generate_for_type(type_code, target)
target(type_code) ==
    CASE type_code = "mc" -> mc_count
      [] type_code = "tf" -> tf_count
      [] type_code = "sa" -> sa_count

\* The three calls of lines 534-536 written in the order mc, sa, tf
NextPhaseSwapped(type_code) ==
    CASE type_code = "mc" -> "sa"
      [] type_code = "sa" -> "tf"
      [] type_code = "tf" -> "topup"

\* the statement that follows _generate_for_type(type_code, ...) returning
NextPhase(type_code) ==
    CASE type_code = "mc" -> "tf"
      [] type_code = "tf" -> "sa"
      [] type_code = "sa" -> "topup"

\* sum(1 for q in questions if q.get("question_type") == qtype)
TypeCount(questions, qtype) ==
    Cardinality({i \in 1..Len(questions) : questions[i].question_type = qtype})

\* ------------------------------------------------------------ _append_unique
\* The three pieces of state _append_unique closes over.
Session(questions, seen, prog) ==
    [all_questions |-> questions, seen_questions |-> seen, progress |-> prog]

\* _append_unique with all_questions.insert(0, q) in place of append(q)
AppendUniqueFront(q, st) ==
    LET q_text == _norm(q.question_text)
    IN  IF q_text = <<>> \/ q_text \in st.seen_questions
        THEN [ok |-> FALSE, st |-> st]
        ELSE [ok |-> TRUE,
              st |-> Session(<<q>> \o st.all_questions,
                             st.seen_questions \cup {q_text},
                             Append(st.progress,
                                    <<Len(st.all_questions) + 1, total_requested>>))]

\* _append_unique without the test "if not q_text"
AppendUniqueKeepsBlank(q, st) ==
    LET q_text == _norm(q.question_text)
    IN  IF q_text \in st.seen_questions
        THEN [ok |-> FALSE, st |-> st]
        ELSE [ok |-> TRUE,
              st |-> Session(Append(st.all_questions, q),
                             st.seen_questions \cup {q_text},
                             Append(st.progress,
                                    <<Len(st.all_questions) + 1, total_requested>>))]

\* _append_unique calling progress_callback before all_questions.append(q)
AppendUniqueReportsBefore(q, st) ==
    LET q_text == _norm(q.question_text)
    IN  IF q_text = <<>> \/ q_text \in st.seen_questions
        THEN [ok |-> FALSE, st |-> st]
        ELSE [ok |-> TRUE,
              st |-> Session(Append(st.all_questions, q),
                             st.seen_questions \cup {q_text},
                             Append(st.progress,
                                    <<Len(st.all_questions), total_requested>>))]

\* _append_unique with seen_questions.add(q_text) ahead of the two tests
AppendUniqueRecordsRefused(q, st) ==
    LET q_text == _norm(q.question_text)
        recorded == Session(st.all_questions, st.seen_questions \cup {q_text},
                            st.progress)
    IN  IF q_text = <<>> \/ q_text \in st.seen_questions
        THEN [ok |-> FALSE, st |-> recorded]
        ELSE [ok |-> TRUE,
              st |-> Session(Append(st.all_questions, q),
                             st.seen_questions \cup {q_text},
                             Append(st.progress,
                                    <<Len(st.all_questions) + 1, total_requested>>))]

\* _append_unique(q): [ok |-> the returned bool, st |-> the state it leaves]
_append_unique(q, st) ==
    LET q_text == _norm(q.question_text)
    IN  IF q_text = <<>>
        THEN [ok |-> FALSE, st |-> st]
        ELSE IF q_text \in st.seen_questions
        THEN [ok |-> FALSE, st |-> st]
        ELSE [ok |-> TRUE,
              st |-> Session(Append(st.all_questions, q),
                             st.seen_questions \cup {q_text},
                             Append(st.progress,
                                    <<Len(st.all_questions) + 1, total_requested>>))]

\* ------------------------------------------------------------ quota allocator
\* _overshoot_buffer with the first comparison written remaining < 3
OvershootOffByOne(remaining) ==
    IF remaining < 3 THEN 2
    ELSE IF remaining <= 10 THEN 3
    ELSE Min(5, Max(2, CeilDiv(remaining, 10)))

\* _overshoot_buffer(remaining).  math.ceil(remaining * 0.1) is a double product:
\* 0.1 is stored as 0.1 * (1 + 2^-54), so for 0 <= remaining < 2^50 the product
\* rounds to remaining/10 exactly when 10 divides remaining and otherwise lies
\* strictly between its two neighbouring integers; its ceiling is that of the
\* exact quotient.
_overshoot_buffer(remaining) ==
    IF remaining <= 3 THEN 2
    ELSE IF remaining <= 10 THEN 3
    ELSE Min(5, Max(2, CeilDiv(remaining, 10)))

\* request_n without the batch_size ceiling
RequestUncapped(remaining) == remaining + _overshoot_buffer(remaining)

\* request_n = min(batch_size, remaining + _overshoot_buffer(remaining))
request_n(remaining) == Min(batch_size, remaining + _overshoot_buffer(remaining))

\* max_attempts = max(6, math.ceil(target / max(1, batch_size)) + 4)
max_attempts(tgt) == Max(6, CeilDiv(tgt, Max(1, batch_size)) + 4)

\* ------------------------------------------------------------ batch loops
\* The for loop of _generate_for_type without the early break at the target
RECURSIVE CategoryBatchNoStop(_, _, _, _)
CategoryBatchNoStop(batch, etype, tgt, acc) ==
    IF batch = <<>> THEN acc
    ELSE LET q == [Head(batch) EXCEPT !.question_type = etype]
             r == _append_unique(q, acc.st)
             acc2 == [st |-> r.st, added |-> acc.added + (IF r.ok THEN 1 ELSE 0)]
         IN  CategoryBatchNoStop(Tail(batch), etype, tgt, acc2)

\* The loop body without q["question_type"] = expected_type
RECURSIVE CategoryBatchKeepsType(_, _, _, _)
CategoryBatchKeepsType(batch, etype, tgt, acc) ==
    IF batch = <<>> THEN acc
    ELSE LET r == _append_unique(Head(batch), acc.st)
             acc2 == [st |-> r.st, added |-> acc.added + (IF r.ok THEN 1 ELSE 0)]
         IN  IF TypeCount(acc2.st.all_questions, etype) >= tgt
             THEN acc2
             ELSE CategoryBatchKeepsType(Tail(batch), etype, tgt, acc2)

\* for q in (batch or []): the loop body of _generate_for_type.
\* acc = [st |-> session state, added |-> questions accepted in this round]
RECURSIVE CategoryBatch(_, _, _, _)
CategoryBatch(batch, etype, tgt, acc) ==
    IF batch = <<>> THEN acc
    ELSE LET q == [Head(batch) EXCEPT !.question_type = etype]
             r == _append_unique(q, acc.st)
             acc2 == [st |-> r.st, added |-> acc.added + (IF r.ok THEN 1 ELSE 0)]
         IN  IF TypeCount(acc2.st.all_questions, etype) >= tgt
             THEN acc2
             ELSE CategoryBatch(Tail(batch), etype, tgt, acc2)

\* The top-up loop without the break at total_requested (lines 560-561)
RECURSIVE TopUpBatchNoStop(_, _)
TopUpBatchNoStop(batch, st) ==
    IF batch = <<>> THEN st
    ELSE LET q == [Head(batch) EXCEPT !.question_type = "multiple_choice"]
             r == _append_unique(q, st)
         IN  TopUpBatchNoStop(Tail(batch), r.st)

\* for q in (batch or []): the loop body of the final top-up pass
RECURSIVE TopUpBatch(_, _)
TopUpBatch(batch, st) ==
    IF batch = <<>> THEN st
    ELSE LET q == [Head(batch) EXCEPT !.question_type = "multiple_choice"]
             r == _append_unique(q, st)
         IN  IF Len(r.st.all_questions) >= total_requested
             THEN r.st
             ELSE TopUpBatch(Tail(batch), r.st)

\* stagnant_rounds >= 3 in place of >= 2
BailOutLate(stagnant) == stagnant >= 3

\* if stagnant_rounds >= 2: break
BailOut(stagnant) == stagnant >= 2

\* ------------------------------------------------------------ the session
CategoryPhases == {"mc", "tf", "sa"}

Current == Session(all_questions, seen_questions, progress)

\* remaining = target - current_type_count
Remaining(type_code) ==
    target(type_code) - TypeCount(all_questions, expected_type(type_code))

\* The while test with a limit of one attempt
LoopGivesUpEarly(type_code) ==
    /\ target(type_code) > 0
    /\ attempts < 1
    /\ Remaining(type_code) > 0

\* _generate_for_type goes on to call generate_quiz: target > 0, the while test
\* attempts < max_attempts holds and remaining > 0
LoopContinues(type_code) ==
    /\ target(type_code) > 0
    /\ attempts < max_attempts(target(type_code))
    /\ Remaining(type_code) > 0

\* generate_quiz returned exactly the requested number of valid questions of the
\* requested type whose texts are new to the session and differ from each other
IsExact(batch) ==
    /\ Len(batch) = request.num_questions
    /\ \A i \in 1..Len(batch) :
          /\ batch[i].question_type = request.question_type
          /\ _norm(batch[i].question_text) # <<>>
          /\ _norm(batch[i].question_text) \notin seen_questions
          /\ \A j \in 1..Len(batch) :
                i # j => _norm(batch[i].question_text) # _norm(batch[j].question_text)

\* batch holds a question whose normalized text the session has already accepted
OffersDuplicate(batch) ==
    \E i \in 1..Len(batch) : _norm(batch[i].question_text) \in seen_questions

\* Lines 482-505: one more round starts, generate_quiz is called.
CategoryRequest ==
    /\ pc \in CategoryPhases
    /\ request = NoRequest
    /\ LoopContinues(pc)
    /\ request' = [num_questions |-> request_n(Remaining(pc)),
                   question_type |-> expected_type(pc)]
    /\ calls' = calls + 1
    /\ total_calls' = total_calls + 1
    /\ UNCHANGED <<app, beside, round_added, dropped, config,
                   all_questions, seen_questions, progress, pc, attempts,
                   stagnant_rounds, failed, exact, dup_offered, result>>

\* Lines 468-469, 482, 485-486: _generate_for_type returns without a call.
CategoryExit ==
    /\ pc \in CategoryPhases
    /\ request = NoRequest
    /\ ~LoopContinues(pc)
    /\ pc' = NextPhase(pc)
    /\ attempts' = 0
    /\ stagnant_rounds' = 0
    /\ calls' = 0
    /\ round_added' = -1
    /\ UNCHANGED <<app, beside, dropped, config,
                   all_questions, seen_questions, progress, request,
                   total_calls, failed, exact, dup_offered, result>>

\* The except branch re-raising: the exception leaves the function
RoundAfterRaiseEscapes ==
    [st |-> Current, pc |-> "raised", attempts |-> attempts,
     stagnant_rounds |-> stagnant_rounds, added |-> 0]

\* The except branch without attempts += 1
RoundAfterRaiseNoCount ==
    [st |-> Current, pc |-> pc, attempts |-> attempts,
     stagnant_rounds |-> stagnant_rounds, added |-> 0]

\* The locals and position after a round in which generate_quiz raised:
\* lines 506-509, attempts += 1; continue.
RoundAfterRaise ==
    [st |-> Current, pc |-> pc, attempts |-> attempts + 1,
     stagnant_rounds |-> stagnant_rounds, added |-> 0]

\* Lines 506-509: generate_quiz raised.
CategoryRaises ==
    /\ pc \in CategoryPhases
    /\ request # NoRequest
    /\ request' = NoRequest
    /\ failed' = TRUE
    /\ exact' = FALSE
    /\ UNCHANGED dup_offered
    /\ LET n == RoundAfterRaise
       IN  /\ all_questions' = n.st.all_questions
           /\ seen_questions' = n.st.seen_questions
           /\ progress' = n.st.progress
           /\ pc' = n.pc
           /\ attempts' = n.attempts
           /\ stagnant_rounds' = n.stagnant_rounds
           /\ round_added' = IF n.pc = pc THEN n.added ELSE -1
    /\ UNCHANGED <<app, beside, dropped, config,
                   calls, total_calls, result>>

\* The round without the reset of stagnant_rounds (the else branch of line 527)
RoundAfterBatchNoReset(batch) ==
    LET r == CategoryBatch(batch, expected_type(pc), target(pc),
                           [st |-> Current, added |-> 0])
        stagnant == IF r.added = 0 THEN stagnant_rounds + 1 ELSE stagnant_rounds
    IN  IF BailOut(stagnant)
        THEN [st |-> r.st, pc |-> NextPhase(pc), attempts |-> 0,
              stagnant_rounds |-> 0, added |-> r.added]
        ELSE [st |-> r.st, pc |-> pc, attempts |-> attempts + 1,
              stagnant_rounds |-> stagnant, added |-> r.added]

\* The locals and position after a round in which generate_quiz returned batch:
\* lines 511-531.
RoundAfterBatch(batch) ==
    LET r == CategoryBatch(batch, expected_type(pc), target(pc),
                           [st |-> Current, added |-> 0])
        stagnant == IF r.added = 0 THEN stagnant_rounds + 1 ELSE 0
    IN  IF BailOut(stagnant)
        THEN [st |-> r.st, pc |-> NextPhase(pc), attempts |-> 0,
              stagnant_rounds |-> 0, added |-> r.added]
        ELSE [st |-> r.st, pc |-> pc, attempts |-> attempts + 1,
              stagnant_rounds |-> stagnant, added |-> r.added]

\* Lines 511-531: the rest of the round once generate_quiz has returned batch.
CategoryRound(batch) ==
    /\ pc \in CategoryPhases
    /\ request # NoRequest
    /\ request' = NoRequest
    /\ exact' = (exact /\ IsExact(batch))
    /\ dup_offered' = (dup_offered \/ OffersDuplicate(batch))
    /\ LET n == RoundAfterBatch(batch)
       IN  /\ all_questions' = n.st.all_questions
           /\ seen_questions' = n.st.seen_questions
           /\ progress' = n.st.progress
           /\ pc' = n.pc
           /\ attempts' = n.attempts
           /\ stagnant_rounds' = n.stagnant_rounds
           /\ calls' = IF n.pc = pc THEN calls ELSE 0
           /\ round_added' = IF n.pc = pc THEN n.added ELSE -1
    /\ UNCHANGED <<app, beside, config, total_calls, failed, result>>

\* Lines 496-531: generate_quiz returned batch, every record of the response
\* having passed _validate_question.
CategoryReturns(batch) == CategoryRound(batch) /\ UNCHANGED dropped

\* The top-up entered with <= in place of < at line 539
TopUpRequestWhenFull ==
    /\ pc = "topup"
    /\ request = NoRequest
    /\ Len(all_questions) <= total_requested
    /\ request' = [num_questions |-> request_n(total_requested - Len(all_questions)),
                   question_type |-> "multiple_choice"]
    /\ calls' = calls + 1
    /\ total_calls' = total_calls + 1
    /\ UNCHANGED <<app, beside, round_added, dropped, config,
                   all_questions, seen_questions, progress, pc, attempts,
                   stagnant_rounds, failed, exact, dup_offered, result>>

\* Lines 539-556: still short after the three loops, one generic call.
TopUpRequest ==
    /\ pc = "topup"
    /\ request = NoRequest
    /\ Len(all_questions) < total_requested
    /\ request' = [num_questions |-> request_n(total_requested - Len(all_questions)),
                   question_type |-> "multiple_choice"]
    /\ calls' = calls + 1
    /\ total_calls' = total_calls + 1
    /\ UNCHANGED <<app, beside, round_added, dropped, config,
                   all_questions, seen_questions, progress, pc, attempts,
                   stagnant_rounds, failed, exact, dup_offered, result>>

\* Line 539 false: no top-up.
TopUpSkip ==
    /\ pc = "topup"
    /\ request = NoRequest
    /\ Len(all_questions) >= total_requested
    /\ pc' = "trim"
    /\ UNCHANGED <<app, beside, round_added, dropped, config,
                   all_questions, seen_questions, progress, attempts,
                   stagnant_rounds, request, calls, total_calls, failed, exact,
                   dup_offered, result>>

\* Lines 562-563: the top-up call raised.
TopUpRaises ==
    /\ pc = "topup"
    /\ request # NoRequest
    /\ request' = NoRequest
    /\ failed' = TRUE
    /\ exact' = FALSE
    /\ UNCHANGED dup_offered
    /\ pc' = "trim"
    /\ UNCHANGED <<app, beside, round_added, dropped, config,
                   all_questions, seen_questions, progress, attempts,
                   stagnant_rounds, calls, total_calls, result>>

\* The top-up written as a loop: after a batch the test of line 539 runs again
TopUpReturnsAgain(batch) ==
    /\ pc = "topup"
    /\ request # NoRequest
    /\ request' = NoRequest
    /\ exact' = (exact /\ IsExact(batch))
    /\ dup_offered' = (dup_offered \/ OffersDuplicate(batch))
    /\ LET st == TopUpBatch(batch, Current)
       IN  /\ all_questions' = st.all_questions
           /\ seen_questions' = st.seen_questions
           /\ progress' = st.progress
    /\ UNCHANGED <<app, beside, round_added, dropped, config,
                   pc, attempts, stagnant_rounds, calls, total_calls,
                   failed, result>>

\* Lines 557-561: the rest of the top-up once generate_quiz has returned batch.
TopUpRound(batch) ==
    /\ pc = "topup"
    /\ request # NoRequest
    /\ request' = NoRequest
    /\ exact' = (exact /\ IsExact(batch))
    /\ dup_offered' = (dup_offered \/ OffersDuplicate(batch))
    /\ LET st == TopUpBatch(batch, Current)
       IN  /\ all_questions' = st.all_questions
           /\ seen_questions' = st.seen_questions
           /\ progress' = st.progress
    /\ pc' = "trim"
    /\ UNCHANGED <<app, beside, round_added, config, attempts, stagnant_rounds, calls,
                   total_calls, failed, result>>

\* Lines 543-561: the top-up call returned batch, every record of the response
\* having passed _validate_question.
TopUpReturns(batch) == TopUpRound(batch) /\ UNCHANGED dropped

\* Line 566: return all_questions[:total_requested]
Trim ==
    /\ pc = "trim"
    /\ result' = SubSeq(all_questions, 1, Min(Len(all_questions), total_requested))
    /\ pc' = "done"
    /\ UNCHANGED <<app, beside, round_added, dropped, config,
                   all_questions, seen_questions, progress, attempts,
                   stagnant_rounds, request, calls, total_calls, failed, exact,
                   dup_offered>>

\* What _validate_question returns for a record it refuses (None).
NoQuestion == [none |-> TRUE]

\* None, as a value that can be compared with any string of the model.
None == <<"None">>

\* No generate_quiz_batch call is in flight.
NoBatch == [batch |-> "none"]

\* No call of _validate_question is being followed.
NormalizerIdle ==
    /\ q_dict = NoQuestion
    /\ q_passed = NoQuestion
    /\ validated = NoQuestion
    /\ validating = FALSE

\* Lines 109-143 of src/main.py: the game keys init_session_state creates.
GameFresh ==
    /\ game_mode = "setup"
    /\ current_question_index = 0
    /\ score = 0
    /\ streak = 0
    /\ max_streak = 0
    /\ wrong_answers = <<>>
    /\ answer_submitted = FALSE
    /\ selected_answer = None
    /\ user_text_answer = <<>>
    /\ answered = <<>>

\* generate_full_quiz is not running.
LegacyIdle ==
    /\ mc_total = 0
    /\ tf_total = 0
    /\ sa_total = 0
    /\ batch_num = 0
    /\ legacy_len = 0
    /\ mc_remaining = 0
    /\ tf_remaining = 0
    /\ sa_remaining = 0
    /\ in_batch = NoBatch
    /\ planned = [mc |-> 0, tf |-> 0, sa |-> 0]
    /\ batch_exact = TRUE
    /\ legacy_pc = "done"

\* No second call is followed.
TwiceIdle ==
    /\ run = 1
    /\ received = <<>>
    /\ outcomes = <<>>
    /\ first_run = NoQuestion

\* Lines 130-131 of src/main.py: no quiz has been generated.
EditorIdle == quiz_df = NoQuestion /\ generated = <<>>

\* Nothing has been exported or imported.
ExporterIdle ==
    /\ json_string = NoQuestion
    /\ exported = NoQuestion
    /\ imported = NoQuestion

\* The components added to the ones above, idle.
ExtraIdle == TwiceIdle /\ EditorIdle /\ ExporterIdle

\* The other components while a session or the wizard is followed.
Elsewhere ==
    /\ NormalizerIdle
    /\ GameFresh
    /\ quiz_data = <<>>
    /\ LegacyIdle
    /\ ExtraIdle

\* The wizard state while a generation runs: the session leaves it alone.
AppIdle ==
    /\ wizard_step = "extraction"
    /\ uploaded_files = <<>>
    /\ upload_signature = <<"None">>
    /\ analysis_signature = <<"None">>
    /\ analysis_result = <<"analysis", "vision">>
    /\ api_key = <<"k", "k", "k", "k", "k", "k", "k", "k", "k", "k">>
    /\ last_pass = "none"
    /\ pass_parity = FALSE
    /\ analyzed_files = <<>>
    /\ forced = FALSE

\* Lines 438-440 and 534: the state when _generate_for_type("mc", ...) starts.
InitSession(mcs, tfs, sas, sizes) ==
    /\ mc_count \in mcs
    /\ tf_count \in tfs
    /\ sa_count \in sas
    /\ batch_size \in sizes
    /\ all_questions = <<>>
    /\ seen_questions = {}
    /\ progress = <<>>
    /\ pc = "mc"
    /\ attempts = 0
    /\ stagnant_rounds = 0
    /\ request = NoRequest
    /\ calls = 0
    /\ total_calls = 0
    /\ failed = FALSE
    /\ exact = TRUE
    /\ dup_offered = FALSE
    /\ result = <<>>
    /\ dropped = FALSE
    /\ round_added = -1

\* ------------------------------------------------------------ Spec: any oracle
\* question_text values generate_quiz can return (non-empty after validation):
\* two spellings of "a", "b", "a b" with a whitespace run, and a blank text.
PoolTexts ==
    { <<"A">>, <<"a", " ">>, <<"b">>, <<"a", "\t", " ", "B">>, <<" ">> }

\* question_type values the oracle may claim for what it returns
ClaimedTypes == {"true_false"}

PoolItems == [question_text : PoolTexts, question_type : ClaimedTypes]

Batches == UNION {[1..k -> PoolItems] : k \in 0..MaxResp}

Init ==
    /\ InitSession(0..MaxTarget, 0..MaxTarget, 0..MaxTarget, 1..MaxBatch)
    /\ AppIdle
    /\ Elsewhere

Next ==
    \/ CategoryRequest
    \/ CategoryExit
    \/ CategoryRaises
    \/ \E batch \in Batches : CategoryReturns(batch)
    \/ TopUpRequest
    \/ TopUpSkip
    \/ TopUpRaises
    \/ \E batch \in Batches : TopUpReturns(batch)
    \/ Trim

Spec == Init /\ [][Next]_vars

\* ------------------------------------------------------------ fresh questions
\* The k-th question text of an oracle that never repeats itself: "Qq...q".
FreshText(k) == [i \in 1..k |-> IF i = 1 THEN "Q" ELSE "q"]

\* n valid questions of type qtype whose texts the session has not seen: the
\* accepted texts are FreshText(1..Cardinality(seen_questions)).
FreshBatch(n, qtype) ==
    [i \in 1..n |-> [question_text |-> FreshText(Cardinality(seen_questions) + i),
                     question_type |-> qtype]]

\* ------------------------------------------------------------ SpecFresh
\* The oracle raises, or returns 0..num_questions questions it never gave before.
InitFresh ==
    /\ InitSession(0..MaxTargetFresh, 0..MaxSideFresh, 0..MaxSideFresh,
                   1..MaxBatchFresh)
    /\ AppIdle
    /\ Elsewhere

NextFresh ==
    \/ CategoryRequest
    \/ CategoryExit
    \/ CategoryRaises
    \/ \E k \in 0..request.num_questions :
          CategoryReturns(FreshBatch(k, request.question_type))
    \/ TopUpRequest
    \/ TopUpSkip
    \/ TopUpRaises
    \/ \E k \in 0..request.num_questions :
          TopUpReturns(FreshBatch(k, request.question_type))
    \/ Trim

SpecFresh == InitFresh /\ [][NextFresh]_vars

\* ------------------------------------------------------------ SpecExact
\* The oracle raises, or returns exactly num_questions new questions of the
\* requested type.
InitExact ==
    /\ InitSession(0..MaxTargetExact, 0..MaxSideExact, 0..MaxSideExact,
                   1..MaxBatchExact)
    /\ AppIdle
    /\ Elsewhere

NextExact ==
    \/ CategoryRequest
    \/ CategoryExit
    \/ CategoryRaises
    \/ CategoryReturns(FreshBatch(request.num_questions, request.question_type))
    \/ TopUpRequest
    \/ TopUpSkip
    \/ TopUpRaises
    \/ TopUpReturns(FreshBatch(request.num_questions, request.question_type))
    \/ Trim

SpecExact == InitExact /\ [][NextExact]_vars

\* ------------------------------------------------------------ SpecSame
\* The oracle returns the same single valid question on every call, under
\* whatever type it likes.
SameText == <<"A", " ", "b">>

SameBatches == {<<[question_text |-> SameText, question_type |-> t]>> : t \in QuestionTypes}

InitSame ==
    /\ InitSession(0..MaxTargetSame, 0..MaxTargetSame, 0..MaxTargetSame,
                   1..MaxBatchSame)
    /\ AppIdle
    /\ Elsewhere

NextSame ==
    \/ CategoryRequest
    \/ CategoryExit
    \/ \E batch \in SameBatches : CategoryReturns(batch)
    \/ TopUpRequest
    \/ TopUpSkip
    \/ \E batch \in SameBatches : TopUpReturns(batch)
    \/ Trim

SpecSame == InitSame /\ [][NextSame]_vars

\* ------------------------------------------------------------ SpecNear
\* The oracle returns one prompt over and over, never spelled twice the same
\* way: the spellings differ in case, in the whitespace around the prompt
\* and in the length of the whitespace run inside it.
Spelling(n) ==
    [i \in 1..(n % 3) |-> IF i % 2 = 1 THEN " " ELSE "\t"]
    \o (IF n % 2 = 0 THEN <<"A">> ELSE <<"a">>)
    \o [i \in 1..n |-> IF i % 2 = 1 THEN " " ELSE "\t"]
    \o (IF n % 4 < 2 THEN <<"b">> ELSE <<"B">>)
    \o [i \in 1..(n % 2) |-> " "]

\* The k questions of the call in flight: spellings no earlier call used
NearBatch(k, qtype) ==
    [i \in 1..k |-> [question_text |-> Spelling((total_calls - 1) * MaxRespNear + i),
                     question_type |-> qtype]]

InitNear ==
    /\ InitSession(0..MaxTargetNear, 0..MaxTargetNear, 0..MaxTargetNear,
                   1..MaxBatchNear)
    /\ AppIdle
    /\ Elsewhere

NextNear ==
    \/ CategoryRequest
    \/ CategoryExit
    \/ \E k \in 0..MaxRespNear : CategoryReturns(NearBatch(k, request.question_type))
    \/ TopUpRequest
    \/ TopUpSkip
    \/ \E k \in 0..MaxRespNear : TopUpReturns(NearBatch(k, request.question_type))
    \/ Trim

SpecNear == InitNear /\ [][NextNear]_vars

\* ------------------------------------------------------------ SpecFreshFair
\* The function runs to its end: every statement that can execute does, and a
\* pending generate_quiz call comes back (by returning or by raising).
SpecFreshFair == InitFresh /\ [][NextFresh]_vars /\ WF_vars(NextFresh)

\* ------------------------------------------------------------ SpecTwice
\* generate_quiz_from_analysis_batched is called, returns, and is called again
\* with the same targets and batch_size.  generate_quiz does on the k-th
\* request of the second call what it did on the k-th request of the first.
\* The text of the i-th question generate_quiz returns on its k-th request:
\* one of three texts, so that calls repeat each other.
ScriptText(k, i) == FreshText(((k + i) % 3) + 1)

ScriptBatch(k, n) ==
    [i \in 1..n |-> [question_text |-> ScriptText(k, i),
                     question_type |-> "true_false"]]

\* What generate_quiz may do on its k-th request.
Outcomes(k) == IF k <= MaxScripted THEN -1..MaxRespTwice ELSE {0}

\* generate_quiz has received the request in flight.
Received == request # NoRequest /\ Len(received) = total_calls

\* Lines 496-505, first call: generate_quiz receives the request and settles
\* what it will do.
OracleDecides ==
    /\ run = 1
    /\ request # NoRequest
    /\ Len(received) < total_calls
    /\ received' = Append(received, request)
    /\ \E o \in Outcomes(total_calls) : outcomes' = Append(outcomes, o)
    /\ UNCHANGED <<session, app, normalizer, game, legacy, run, first_run, editor,
                   exporter>>

\* Lines 496-505, second call: generate_quiz receives the request; it will do
\* what it did on the request of the same rank of the first call.
OracleReplays ==
    /\ run = 2
    /\ request # NoRequest
    /\ Len(received) < total_calls
    /\ total_calls <= Len(outcomes)
    /\ received' = Append(received, request)
    /\ UNCHANGED <<session, app, normalizer, game, legacy, run, outcomes, first_run,
                   editor, exporter>>

\* The second call starting with the fingerprints of the first still recorded
CallAgainKeepsSeen ==
    /\ run = 1
    /\ pc = "done"
    /\ run' = 2
    /\ first_run' = [requests |-> received, result |-> result]
    /\ received' = <<>>
    /\ all_questions' = <<>>
    /\ UNCHANGED seen_questions
    /\ progress' = <<>>
    /\ pc' = "mc"
    /\ attempts' = 0
    /\ stagnant_rounds' = 0
    /\ request' = NoRequest
    /\ calls' = 0
    /\ total_calls' = 0
    /\ failed' = FALSE
    /\ exact' = TRUE
    /\ dup_offered' = FALSE
    /\ result' = <<>>
    /\ dropped' = FALSE
    /\ round_added' = -1
    /\ UNCHANGED <<config, app, normalizer, game, legacy, outcomes, editor, exporter>>

\* Lines 438-440, 477-480, 534: the function has returned and is called again
\* with the same arguments; all_questions, seen_questions and the counters of
\* _generate_for_type are locals, created by the call.
CallAgain ==
    /\ run = 1
    /\ pc = "done"
    /\ run' = 2
    /\ first_run' = [requests |-> received, result |-> result]
    /\ received' = <<>>
    /\ all_questions' = <<>>
    /\ seen_questions' = {}
    /\ progress' = <<>>
    /\ pc' = "mc"
    /\ attempts' = 0
    /\ stagnant_rounds' = 0
    /\ request' = NoRequest
    /\ calls' = 0
    /\ total_calls' = 0
    /\ failed' = FALSE
    /\ exact' = TRUE
    /\ dup_offered' = FALSE
    /\ result' = <<>>
    /\ dropped' = FALSE
    /\ round_added' = -1
    /\ UNCHANGED <<config, app, normalizer, game, legacy, outcomes, editor, exporter>>

InitTwice ==
    /\ InitSession(0..MaxTargetTwice, 0..MaxTargetTwice, 0..MaxTargetTwice,
                   1..MaxBatchTwice)
    /\ AppIdle
    /\ Elsewhere

NextTwice ==
    \/ CategoryRequest
    \/ CategoryExit
    \/ OracleDecides
    \/ OracleReplays
    \/ Received /\ outcomes[total_calls] = -1 /\ CategoryRaises
    \/ Received /\ outcomes[total_calls] >= 0
          /\ CategoryReturns(ScriptBatch(total_calls, outcomes[total_calls]))
    \/ TopUpRequest
    \/ TopUpSkip
    \/ Received /\ outcomes[total_calls] = -1 /\ TopUpRaises
    \/ Received /\ outcomes[total_calls] >= 0
          /\ TopUpReturns(ScriptBatch(total_calls, outcomes[total_calls]))
    \/ Trim
    \/ CallAgain

SpecTwice == InitTwice /\ [][NextTwice]_vars

\* ============================================================ _validate_question
\* A raw record is a function from the keys the oracle wrote to their values;
\* question_text and question_type are sequences of characters, every other
\* string is atomic.
\* The required-fields loop testing only "field not in question"
MissingRequiredKeysOnly(question) ==
    \/ "question_text" \notin DOMAIN question
    \/ "question_type" \notin DOMAIN question
    \/ "correct_answer" \notin DOMAIN question

\* Lines 265-270: a required field is not in question, or is falsy
MissingRequired(question) ==
    \/ "question_text" \notin DOMAIN question
    \/ question.question_text = <<>>
    \/ "question_type" \notin DOMAIN question
    \/ question.question_type = <<>>
    \/ "correct_answer" \notin DOMAIN question
    \/ question.correct_answer = ""

\* str.replace(old, new) for one-character old and new
Replace(s, old, new) == [i \in 1..Len(s) |-> IF s[i] = old THEN new ELSE s[i]]

\* The type strings the model writes
TypeStrings ==
    { "multiple_choice", "true_false", "short_answer", "matching",
      "fill_in_blank", "mc", "multiplechoice", "tf", "truefalse", "sa",
      "shortanswer", "match", "pairs", "fill", "fillin", "blank", "fib",
      "Multiple Choice", "multiple-choice", "MC", "True-False", "TF",
      "Short Answer", "SA", "Matching", "Pairs", "Fill-In-Blank", "FIB",
      "essay", "true/false" }

\* The characters of every type string
CharsOf ==
    [name \in TypeStrings |->
        CASE name = "multiple_choice" ->
               <<"m", "u", "l", "t", "i", "p", "l", "e", "_", "c", "h", "o", "i",
                 "c", "e">>
          [] name = "true_false" ->
               <<"t", "r", "u", "e", "_", "f", "a", "l", "s", "e">>
          [] name = "short_answer" ->
               <<"s", "h", "o", "r", "t", "_", "a", "n", "s", "w", "e", "r">>
          [] name = "matching" ->
               <<"m", "a", "t", "c", "h", "i", "n", "g">>
          [] name = "fill_in_blank" ->
               <<"f", "i", "l", "l", "_", "i", "n", "_", "b", "l", "a", "n", "k">>
          [] name = "mc" ->
               <<"m", "c">>
          [] name = "multiplechoice" ->
               <<"m", "u", "l", "t", "i", "p", "l", "e", "c", "h", "o", "i", "c",
                 "e">>
          [] name = "tf" ->
               <<"t", "f">>
          [] name = "truefalse" ->
               <<"t", "r", "u", "e", "f", "a", "l", "s", "e">>
          [] name = "sa" ->
               <<"s", "a">>
          [] name = "shortanswer" ->
               <<"s", "h", "o", "r", "t", "a", "n", "s", "w", "e", "r">>
          [] name = "match" ->
               <<"m", "a", "t", "c", "h">>
          [] name = "pairs" ->
               <<"p", "a", "i", "r", "s">>
          [] name = "fill" ->
               <<"f", "i", "l", "l">>
          [] name = "fillin" ->
               <<"f", "i", "l", "l", "i", "n">>
          [] name = "blank" ->
               <<"b", "l", "a", "n", "k">>
          [] name = "fib" ->
               <<"f", "i", "b">>
          [] name = "Multiple Choice" ->
               <<"M", "u", "l", "t", "i", "p", "l", "e", " ", "C", "h", "o", "i",
                 "c", "e">>
          [] name = "multiple-choice" ->
               <<"m", "u", "l", "t", "i", "p", "l", "e", "-", "c", "h", "o", "i",
                 "c", "e">>
          [] name = "MC" ->
               <<"M", "C">>
          [] name = "True-False" ->
               <<"T", "r", "u", "e", "-", "F", "a", "l", "s", "e">>
          [] name = "TF" ->
               <<"T", "F">>
          [] name = "Short Answer" ->
               <<"S", "h", "o", "r", "t", " ", "A", "n", "s", "w", "e", "r">>
          [] name = "SA" ->
               <<"S", "A">>
          [] name = "Matching" ->
               <<"M", "a", "t", "c", "h", "i", "n", "g">>
          [] name = "Pairs" ->
               <<"P", "a", "i", "r", "s">>
          [] name = "Fill-In-Blank" ->
               <<"F", "i", "l", "l", "-", "I", "n", "-", "B", "l", "a", "n", "k">>
          [] name = "FIB" ->
               <<"F", "I", "B">>
          [] name = "essay" ->
               <<"e", "s", "s", "a", "y">>
          [] name = "true/false" ->
               <<"t", "r", "u", "e", "/", "f", "a", "l", "s", "e">>]

Chars(name) == CharsOf[name]

\* TypeKey without the .lower() call
TypeKeyNoLower(t) == Replace(Replace(t, " ", "_"), "-", "_")

\* Line 273: question["question_type"].lower().replace(" ", "_").replace("-", "_")
TypeKey(t) == Replace(Replace(Lower(t), " ", "_"), "-", "_")

\* Line 294: the canonical type strings of valid_types
MultipleChoice ==
    <<"m", "u", "l", "t", "i", "p", "l", "e", "_", "c", "h", "o", "i", "c", "e">>

TrueFalse == <<"t", "r", "u", "e", "_", "f", "a", "l", "s", "e">>

ShortAnswer == <<"s", "h", "o", "r", "t", "_", "a", "n", "s", "w", "e", "r">>

Matching == <<"m", "a", "t", "c", "h", "i", "n", "g">>

FillInBlank == <<"f", "i", "l", "l", "_", "i", "n", "_", "b", "l", "a", "n", "k">>

\* Lines 276-291: type_aliases.get(q_type, q_type)
AliasDict ==
    (<<"m", "c">> :> MultipleChoice)
 @@ (<<"m", "u", "l", "t", "i", "p", "l", "e", "c", "h", "o", "i", "c", "e">>
        :> MultipleChoice)
 @@ (<<"t", "f">> :> TrueFalse)
 @@ (<<"t", "r", "u", "e", "f", "a", "l", "s", "e">> :> TrueFalse)
 @@ (<<"s", "a">> :> ShortAnswer)
 @@ (<<"s", "h", "o", "r", "t", "a", "n", "s", "w", "e", "r">> :> ShortAnswer)
 @@ (<<"m", "a", "t", "c", "h">> :> Matching)
 @@ (<<"p", "a", "i", "r", "s">> :> Matching)
 @@ (<<"f", "i", "l", "l">> :> FillInBlank)
 @@ (<<"f", "i", "l", "l", "i", "n">> :> FillInBlank)
 @@ (<<"b", "l", "a", "n", "k">> :> FillInBlank)
 @@ (<<"f", "i", "b">> :> FillInBlank)

type_aliases(t) == IF t \in DOMAIN AliasDict THEN AliasDict[t] ELSE t

valid_types == {MultipleChoice, TrueFalse, ShortAnswer, Matching, FillInBlank}

\* The spellings of question_type the oracle writes
TypeSpellings == { Chars(name) : name \in TypeStrings }

\* Lines 273-297: the question_type _validate_question stores
q_type(question) ==
    LET t == type_aliases(TypeKey(question.question_type))
    IN  IF t \in valid_types THEN t ELSE MultipleChoice

\* question.get("options", [])
OptionsOf(question) ==
    IF "options" \in DOMAIN question THEN question.options ELSE <<>>

\* Lines 304-305 with if in place of while: one "" is appended at most
PadOnce(options) == IF Len(options) < 4 THEN Append(options, "") ELSE options

\* Lines 304-305: while len(options) < 4: options.append("")
RECURSIVE PadTo4(_)
PadTo4(options) == IF Len(options) < 4 THEN PadTo4(Append(options, "")) ELSE options

\* Lines 319-324: the pairs made of the options that are "left:right" strings
RECURSIVE PairsFrom(_)
PairsFrom(options) ==
    IF options = <<>> THEN <<>>
    ELSE IF Head(options) = "l:r"
         THEN <<[left |-> "l", right |-> "r"]>> \o PairsFrom(Tail(options))
         ELSE PairsFrom(Tail(options))

\* Lines 299-334: the options _validate_question leaves
NormalOptions(question) ==
    CASE q_type(question) = MultipleChoice -> PadTo4(OptionsOf(question))
      [] q_type(question) = TrueFalse ->
            IF Len(OptionsOf(question)) < 2 THEN <<"True", "False">>
            ELSE OptionsOf(question)
      [] OTHER -> <<>>

\* list.index(x): the 0-based position of the first x
FirstIndex(options, x) ==
    (CHOOSE i \in 1..Len(options) :
        options[i] = x /\ \A j \in 1..(i - 1) : options[j] # x) - 1

\* str(correct_answer).lower() in ["true", "verdadero"]
SaysTrue(answer) == answer \in {"True", "true", "TRUE", "Verdadero", "verdadero"}

\* Lines 336-344: correct_answer_index
NormalIndex(question) ==
    IF "correct_answer_index" \in DOMAIN question
    THEN question.correct_answer_index
    ELSE IF /\ q_type(question) = MultipleChoice
            /\ \E i \in 1..Len(NormalOptions(question)) :
                  NormalOptions(question)[i] = question.correct_answer
         THEN FirstIndex(NormalOptions(question), question.correct_answer)
         ELSE IF q_type(question) = TrueFalse
         THEN (IF SaysTrue(question.correct_answer) THEN 0 ELSE 1)
         ELSE -1

\* Lines 346-352: a missing or empty text field gets its default
WithDefault(question, field, default) ==
    IF field \notin DOMAIN question \/ question[field] = "" THEN default
    ELSE question[field]

\* _validate_question(question, index): NoQuestion, or the normalized record
_validate_question(question) ==
    IF MissingRequired(question) THEN NoQuestion
    ELSE IF q_type(question) = MultipleChoice /\ Len(OptionsOf(question)) < 2
    THEN NoQuestion
    ELSE LET fields ==
                 ("question_type" :> q_type(question))
              @@ ("options" :> NormalOptions(question))
              @@ ("correct_answer_index" :> NormalIndex(question))
              @@ ("explanation" :>
                    WithDefault(question, "explanation",
                                "Great job reviewing this concept!"))
              @@ ("misconception_tag" :>
                    WithDefault(question, "misconception_tag", "General concept check"))
             pairs ==
                 IF q_type(question) = Matching /\ "pairs" \notin DOMAIN question
                 THEN ("pairs" :> PairsFrom(OptionsOf(question)))
                 ELSE <<>>
         IN  IF pairs = <<>> THEN fields @@ question
             ELSE fields @@ pairs @@ question

\* The dict handed to _validate_question once the call is over: the function
\* assigns to the keys of its argument (lines 297, 305, 310, 325-334, 339-352)
\* and returns that same object.
QuestionAfter(question) ==
    IF MissingRequired(question) THEN question
    ELSE IF q_type(question) = MultipleChoice /\ Len(OptionsOf(question)) < 2
    THEN ("question_type" :> q_type(question)) @@ question
    ELSE _validate_question(question)

\* Lines 200-207: the validation loop of generate_quiz
RECURSIVE generate_quiz(_)
generate_quiz(questions) ==
    IF questions = <<>> THEN <<>>
    ELSE LET validated_q == _validate_question(Head(questions))
         IN  IF validated_q = NoQuestion THEN generate_quiz(Tail(questions))
             ELSE <<validated_q>> \o generate_quiz(Tail(questions))

\* ------------------------------------------------------------ SpecRaw
\* The records the oracle writes, before a text is put in: a five-option and a
\* two-option multiple choice, a one-option record of an unknown type, a
\* true/false without options, a short answer with options, and records
\* without question_text or correct_answer (missing or empty).
RawPool ==
    { [question_text |-> <<"Q">>, question_type |-> Chars("multiple_choice"),
       correct_answer |-> "a", options |-> <<"a", "b", "c", "d", "e">>],
      [question_text |-> <<"Q">>, question_type |-> Chars("Multiple Choice"),
       correct_answer |-> "b", options |-> <<"a", "b">>],
      [question_text |-> <<"Q">>, question_type |-> Chars("essay"),
       correct_answer |-> "a", options |-> <<"a">>],
      [question_text |-> <<"Q">>, question_type |-> Chars("tf"),
       correct_answer |-> "True"],
      [question_text |-> <<"Q">>, question_type |-> Chars("short_answer"),
       correct_answer |-> "x", options |-> <<"x">>, explanation |-> ""],
      [question_type |-> Chars("multiple_choice"),
       correct_answer |-> "a", options |-> <<"a", "b", "c", "d">>],
      [question_text |-> <<>>, question_type |-> Chars("true_false"),
       correct_answer |-> "True"],
      [question_text |-> <<"Q">>, question_type |-> Chars("short_answer")],
      [question_text |-> <<"Q">>, question_type |-> Chars("multiple_choice"),
       correct_answer |-> "", options |-> <<"a", "b", "c", "d">>] }

RawBatches == UNION {[1..k -> RawPool] : k \in 0..MaxRespRaw}

\* The response json.loads returns: the records of raws, every question_text
\* that is there and not empty replaced by a text the session has not seen.
RawResponse(raws) ==
    [i \in 1..Len(raws) |->
        IF "question_text" \in DOMAIN raws[i] /\ raws[i].question_text # <<>>
        THEN [raws[i] EXCEPT
                !.question_text = FreshText(Cardinality(seen_questions) + i)]
        ELSE raws[i]]

CanonicalNames ==
    {"multiple_choice", "true_false", "short_answer", "matching", "fill_in_blank"}

\* The category name the session model writes for a canonical type string
TypeName(t) == CHOOSE name \in CanonicalNames : Chars(name) = t

\* What generate_quiz returns for the response raws, question_type written as
\* the session model writes it
ValidatedResponse(raws) ==
    LET validated_questions == generate_quiz(RawResponse(raws))
    IN  [i \in 1..Len(validated_questions) |->
            [validated_questions[i] EXCEPT
                !.question_type = TypeName(validated_questions[i].question_type)]]

\* The record has no question_text or no correct_answer (missing or empty).
LacksTextOrAnswer(question) ==
    \/ "question_text" \notin DOMAIN question
    \/ question.question_text = <<>>
    \/ "correct_answer" \notin DOMAIN question
    \/ question.correct_answer = ""

\* Lines 496-531 with lines 198-207: the oracle wrote raws; generate_quiz
\* validates them and the round goes on with what is left.
CategoryReturnsRaw(raws) ==
    /\ CategoryRound(ValidatedResponse(raws))
    /\ dropped' = (dropped \/ \E i \in 1..Len(raws) : LacksTextOrAnswer(raws[i]))

\* Lines 543-561 with lines 198-207, for the top-up call.
TopUpReturnsRaw(raws) ==
    /\ TopUpRound(ValidatedResponse(raws))
    /\ dropped' = (dropped \/ \E i \in 1..Len(raws) : LacksTextOrAnswer(raws[i]))

InitRaw ==
    /\ InitSession(0..MaxTargetRaw, 0..MaxTargetRaw, 0..MaxTargetRaw, 1..MaxBatchRaw)
    /\ AppIdle
    /\ Elsewhere

NextRaw ==
    \/ CategoryRequest
    \/ CategoryExit
    \/ \E raws \in RawBatches : CategoryReturnsRaw(raws)
    \/ TopUpRequest
    \/ TopUpSkip
    \/ \E raws \in RawBatches : TopUpReturnsRaw(raws)
    \/ Trim

SpecRaw == InitRaw /\ [][NextRaw]_vars

\* ------------------------------------------------------------ SpecNormalize
\* One call of _validate_question on a record of the response (line 203).
OptionLists ==
    { <<>>, <<"a">>, <<"a", "b">>, <<"b", "a">>, <<"True", "False">>,
      <<"False", "True">>, <<"a", "b", "c", "d", "e">>, <<"l:r">> }

Answers == {"a", "True", "False", "Verdadero"}

\* The correct_answer_index values the oracle writes when it writes one
SuppliedIndexes == {0, 3}

\* A record with question_text, question_type and correct_answer, with options
\* when has_options, and with correct_answer_index when has_index
RawQuestion(t, answer, has_options, options, has_index, index) ==
    LET base == [question_text |-> <<"Q">>, question_type |-> t,
                 correct_answer |-> answer]
        with_options == IF has_options THEN ("options" :> options) @@ base ELSE base
    IN  IF has_index THEN ("correct_answer_index" :> index) @@ with_options
        ELSE with_options

\* The records json.loads can hand to _validate_question
RawQuestions ==
    RawPool \cup
    { RawQuestion(t, answer, has_options, options, has_index, index) :
        t \in TypeSpellings, answer \in Answers, has_options \in BOOLEAN,
        options \in OptionLists, has_index \in BOOLEAN, index \in SuppliedIndexes }

\* Line 203: validated_q = _validate_question(q, i)
Validate ==
    /\ validating
    /\ validated' = _validate_question(q_dict)
    /\ q_dict' = QuestionAfter(q_dict)
    /\ validating' = FALSE
    /\ UNCHANGED <<q_passed, session, app, game, legacy, extra>>

InitNormalize ==
    /\ q_dict \in RawQuestions
    /\ q_passed = q_dict
    /\ validated = NoQuestion
    /\ validating = TRUE
    /\ InitSession({0}, {0}, {0}, {1})
    /\ AppIdle
    /\ GameFresh
    /\ quiz_data = <<>>
    /\ LegacyIdle
    /\ ExtraIdle

NextNormalize == Validate

SpecNormalize == InitNormalize /\ [][NextNormalize]_vars

\* ============================================================ src/main.py
\* ------------------------------------------------------------ strings
\* The characters of the modelled strings in code-point order: str comparison,
\* and so sorted(), orders characters by code point.
AsciiOrder ==
    << ".", "0", "1", "2", "3", "4", "5", "6", "7", "8", "9", ":",
       "a", "b", "c", "d", "e", "f", "g", "k", "n", "o", "p", "u", "w", "x", "y", "|" >>

CharCode(c) == CHOOSE i \in 1..Len(AsciiOrder) : AsciiOrder[i] = c

\* s < t for two str values
RECURSIVE StrLess(_, _)
StrLess(s, t) ==
    IF t = <<>> THEN FALSE
    ELSE IF s = <<>> THEN TRUE
    ELSE IF Head(s) = Head(t) THEN StrLess(Tail(s), Tail(t))
    ELSE CharCode(Head(s)) < CharCode(Head(t))

\* str(n) for an int n >= 0, as the f-string formats len(content)
RECURSIVE Decimal(_)
Decimal(n) ==
    LET digit == <<"0", "1", "2", "3", "4", "5", "6", "7", "8", "9">>[(n % 10) + 1]
    IN  IF n < 10 THEN <<digit>> ELSE Decimal(n \div 10) \o <<digit>>

\* hashlib.md5(content).hexdigest()[:12] of the contents the model uploads:
\* b"a", b"b" and b"ab".
Md5Hex12(content) ==
    CASE content = <<"a">> ->
            <<"0", "c", "c", "1", "7", "5", "b", "9", "c", "0", "f", "1">>
      [] content = <<"b">> ->
            <<"9", "2", "e", "b", "5", "f", "f", "e", "e", "6", "a", "e">>
      [] content = <<"a", "b">> ->
            <<"1", "8", "7", "e", "f", "4", "4", "3", "6", "1", "2", "2">>

\* the list left by inserting part into an ascending list
RECURSIVE InsertSorted(_, _)
InsertSorted(part, parts) ==
    IF parts = <<>> THEN <<part>>
    ELSE IF StrLess(Head(parts), part)
         THEN <<Head(parts)>> \o InsertSorted(part, Tail(parts))
         ELSE <<part>> \o parts

\* sig_parts left in the order of the files
Unsorted(parts) == parts

\* sorted(sig_parts)
RECURSIVE sorted(_)
sorted(parts) ==
    IF parts = <<>> THEN <<>> ELSE InsertSorted(Head(parts), sorted(Tail(parts)))

\* "|".join(parts)
RECURSIVE Join(_)
Join(parts) ==
    IF parts = <<>> THEN <<>>
    ELSE IF Len(parts) = 1 THEN Head(parts)
    ELSE Head(parts) \o <<"|">> \o Join(Tail(parts))

\* ------------------------------------------------------------ uploaded files
\* f.seek(0) on an open file
Seek0(f) == [f EXCEPT !.pos = 0]

\* f.read() on an open file: the bytes from the position to the end
ReadBytes(f) == SubSeq(f.content, f.pos + 1, Len(f.content))

\* the file after f.read()
AfterRead(f) == [f EXCEPT !.pos = Len(f.content)]

\* The string one file adds to sig_parts (lines 321-329); seek and read raise
\* ValueError on a closed file, and the except branch then files name:unknown.
SigPart(f) ==
    IF f.closed
    THEN f.name \o <<":", "u", "n", "k", "n", "o", "w", "n">>
    ELSE LET content == ReadBytes(Seek0(f))
         IN  f.name \o <<":">> \o Decimal(Len(content)) \o <<":">> \o Md5Hex12(content)

\* The file as the loop body leaves it: seek(0), read(), seek(0).
FileAfterSignature(f) == IF f.closed THEN f ELSE Seek0(AfterRead(Seek0(f)))

FilesAfterSignature(files) == [i \in 1..Len(files) |-> FileAfterSignature(files[i])]

\* _compute_upload_signature(files): the returned str
_compute_upload_signature(files) ==
    IF files = <<>> THEN <<>>
    ELSE LET sig_parts == [i \in 1..Len(files) |-> SigPart(files[i])]
         IN  Join(sorted(sig_parts))

\* ------------------------------------------------------------ the wizard
\* "x.png", "y.png", and a name that spells a signature part and a separator
NameX == <<"x", ".", "p", "n", "g">>
NameY == <<"y", ".", "p", "n", "g">>
NameXY == NameX \o <<":", "1", ":">> \o Md5Hex12(<<"a">>) \o <<"|">> \o NameY

\* The files a user uploads: two plain images (one left at its end by an
\* earlier read), an image whose name holds ":" and "|", the first image with
\* other content, and a closed file.
PoolFiles ==
    { [name |-> NameX, content |-> <<"a">>, closed |-> FALSE, pos |-> 0],
      [name |-> NameY, content |-> <<"b">>, closed |-> FALSE, pos |-> 1],
      [name |-> NameXY, content |-> <<"b">>, closed |-> FALSE, pos |-> 0],
      [name |-> NameX, content |-> <<"a", "b">>, closed |-> FALSE, pos |-> 0],
      [name |-> NameY, content |-> <<"b">>, closed |-> TRUE, pos |-> 0] }

\* the lists st.file_uploader can return: 1..n different files
Uploads(n) ==
    UNION { {u \in [1..k -> PoolFiles] : \A i, j \in 1..k : i # j => u[i] # u[j]} :
            k \in 1..n }

\* what analyze_notebook_image / analyze_multiple_images return, and the
\* analysis a saved quiz file carries
VisionAnalysis == <<"analysis", "vision">>
SavedAnalysis == <<"analysis", "saved">>

\* api_key values: none, and a key of at least 10 characters
ApiKeys == {<<>>, <<"k", "k", "k", "k", "k", "k", "k", "k", "k", "k">>}

\* not api_key or len(api_key.strip()) < 10
KeyInvalid(key) == key = <<>> \/ Len(Strip(key)) < 10

\* init_session_state (lines 105-180)
init_session_state ==
    /\ wizard_step = "ingestion"
    /\ uploaded_files = <<>>
    /\ upload_signature = None
    /\ analysis_signature = None
    /\ analysis_result = None
    /\ api_key \in ApiKeys
    /\ last_pass = "none"
    /\ pass_parity = FALSE
    /\ analyzed_files = <<>>
    /\ forced = FALSE

\* render_sidebar: the key the next run gets is whatever the user has typed
SetApiKey(key) ==
    /\ api_key' = key
    /\ UNCHANGED <<wizard_step, uploaded_files, upload_signature, analysis_signature,
                   analysis_result, last_pass, pass_parity, analyzed_files, forced>>
    /\ UNCHANGED <<session, beside>>

\* Lines 404-414: the uploader holds files; they and their signature are stored.
Upload(files) ==
    /\ wizard_step = "ingestion"
    /\ uploaded_files' = FilesAfterSignature(files)
    /\ upload_signature' = _compute_upload_signature(files)
    /\ forced' = (forced /\ uploaded_files' = uploaded_files)
    /\ UNCHANGED <<wizard_step, analysis_signature, analysis_result, api_key,
                   last_pass, pass_parity, analyzed_files>>
    /\ UNCHANGED <<session, beside>>

\* Lines 444-450: "Analyze Notebook", enabled with files and a key.
GoToExtraction ==
    /\ wizard_step = "ingestion"
    /\ uploaded_files # <<>>
    /\ api_key # <<>>
    /\ wizard_step' = "extraction"
    /\ UNCHANGED <<uploaded_files, upload_signature, analysis_signature,
                   analysis_result, api_key, last_pass, pass_parity,
                   analyzed_files, forced>>
    /\ UNCHANGED <<session, beside>>

\* Lines 523-576: a saved quiz is loaded; its analysis, if it has one, is stored.
LoadSavedQuiz(analysis) ==
    /\ wizard_step = "ingestion"
    /\ analysis_result' = IF analysis # None THEN analysis ELSE analysis_result
    /\ wizard_step' = "editor"
    /\ forced' = (forced /\ analysis = None)
    /\ UNCHANGED <<uploaded_files, upload_signature, analysis_signature, api_key,
                   last_pass, pass_parity, analyzed_files>>
    /\ UNCHANGED <<session, beside>>

\* Line 609 with the != written ==
NeedAnalysisInverted ==
    (upload_signature = analysis_signature) \/ (analysis_result = None)

\* Line 609: need_analysis
need_analysis ==
    (upload_signature # analysis_signature) \/ (analysis_result = None)

\* Re-analyze without line 616: only the stored result is cleared
ReanalyzeKeepsSignature ==
    /\ wizard_step = "extraction"
    /\ analysis_result # None
    /\ analysis_result' = None
    /\ forced' = TRUE
    /\ UNCHANGED <<wizard_step, uploaded_files, upload_signature, analysis_signature,
                   api_key, last_pass, pass_parity, analyzed_files>>
    /\ UNCHANGED <<session, beside>>

\* Lines 614-618: the Re-analyze button, shown while a result is stored.
Reanalyze ==
    /\ wizard_step = "extraction"
    /\ analysis_result # None
    /\ analysis_signature' = None
    /\ analysis_result' = None
    /\ forced' = TRUE
    /\ UNCHANGED <<wizard_step, uploaded_files, upload_signature, api_key, last_pass,
                   pass_parity, analyzed_files>>
    /\ UNCHANGED <<session, beside>>

\* Lines 620-633, 669-679: analysis is needed but the key or the files are not
\* there; ValueError is raised before any analysis call and shown.
PassRejected ==
    /\ wizard_step = "extraction"
    /\ need_analysis
    /\ KeyInvalid(api_key) \/ uploaded_files = <<>>
    /\ pass_parity' = ~pass_parity
    /\ last_pass' = "rejected"
    /\ UNCHANGED <<wizard_step, uploaded_files, upload_signature, analysis_signature,
                   analysis_result, api_key, analyzed_files, forced>>
    /\ UNCHANGED <<session, beside>>

\* Lines 620-667: the analysis is called and returns; result and signature are
\* stored.
PassAnalyzed ==
    /\ wizard_step = "extraction"
    /\ need_analysis
    /\ ~KeyInvalid(api_key)
    /\ uploaded_files # <<>>
    /\ analysis_result' = VisionAnalysis
    /\ analysis_signature' = upload_signature
    /\ analyzed_files' = uploaded_files
    /\ pass_parity' = ~pass_parity
    /\ last_pass' = "analyzed"
    /\ UNCHANGED <<wizard_step, uploaded_files, upload_signature, api_key, forced>>
    /\ UNCHANGED <<session, beside>>

\* The failing pass with line 661 ahead of the analysis call
PassApiFailsStoresSignature ==
    /\ wizard_step = "extraction"
    /\ need_analysis
    /\ ~KeyInvalid(api_key)
    /\ uploaded_files # <<>>
    /\ analysis_signature' = upload_signature
    /\ pass_parity' = ~pass_parity
    /\ last_pass' = "api_failed"
    /\ UNCHANGED <<wizard_step, uploaded_files, upload_signature,
                   analysis_result, api_key, analyzed_files, forced>>
    /\ UNCHANGED <<session, beside>>

\* Lines 636-658, 669-679: the analysis is called and raises; nothing is stored.
PassApiFails ==
    /\ wizard_step = "extraction"
    /\ need_analysis
    /\ ~KeyInvalid(api_key)
    /\ uploaded_files # <<>>
    /\ pass_parity' = ~pass_parity
    /\ last_pass' = "api_failed"
    /\ UNCHANGED <<wizard_step, uploaded_files, upload_signature, analysis_signature,
                   analysis_result, api_key, analyzed_files, forced>>
    /\ UNCHANGED <<session, beside>>

\* Lines 680-681: the stored analysis is used.
PassCached ==
    /\ wizard_step = "extraction"
    /\ ~need_analysis
    /\ pass_parity' = ~pass_parity
    /\ last_pass' = "cached"
    /\ UNCHANGED <<wizard_step, uploaded_files, upload_signature, analysis_signature,
                   analysis_result, api_key, analyzed_files, forced>>
    /\ UNCHANGED <<session, beside>>

\* Lines 673-675, 687-689, 809-811: "Back to Upload".
BackToUpload ==
    /\ wizard_step = "extraction"
    /\ wizard_step' = "ingestion"
    /\ UNCHANGED <<uploaded_files, upload_signature, analysis_signature,
                   analysis_result, api_key, last_pass, pass_parity,
                   analyzed_files, forced>>
    /\ UNCHANGED <<session, beside>>

\* Lines 813-868: a quiz is generated from the stored analysis.
GenerateQuiz ==
    /\ wizard_step = "extraction"
    /\ analysis_result # None
    /\ wizard_step' = "editor"
    /\ UNCHANGED <<uploaded_files, upload_signature, analysis_signature,
                   analysis_result, api_key, last_pass, pass_parity,
                   analyzed_files, forced>>
    /\ UNCHANGED <<session, beside>>

\* Lines 976-978: "Back to Extraction".
BackToExtraction ==
    /\ wizard_step = "editor"
    /\ wizard_step' = "extraction"
    /\ UNCHANGED <<uploaded_files, upload_signature, analysis_signature,
                   analysis_result, api_key, last_pass, pass_parity,
                   analyzed_files, forced>>
    /\ UNCHANGED <<session, beside>>

\* reset_to_setup (lines 229-244): "Start Over"; the two signatures stay.
StartOver ==
    /\ wizard_step' = "ingestion"
    /\ analysis_result' = None
    /\ uploaded_files' = <<>>
    /\ forced' = FALSE
    /\ UNCHANGED <<upload_signature, analysis_signature, api_key, last_pass,
                   pass_parity, analyzed_files>>
    /\ UNCHANGED <<session, beside>>

\* ------------------------------------------------------------ SpecApp
\* The wizard of src/main.py up to the editor; no quiz generation is running.
InitApp == InitSession({0}, {0}, {0}, {1}) /\ init_session_state /\ Elsewhere

NextApp ==
    \/ \E key \in ApiKeys : SetApiKey(key)
    \/ \E files \in Uploads(MaxFiles) : Upload(files)
    \/ GoToExtraction
    \/ \E analysis \in {None, SavedAnalysis} : LoadSavedQuiz(analysis)
    \/ Reanalyze
    \/ PassRejected
    \/ PassAnalyzed
    \/ PassApiFails
    \/ PassCached
    \/ BackToUpload
    \/ GenerateQuiz
    \/ BackToExtraction
    \/ StartOver

SpecApp == InitApp /\ [][NextApp]_vars

\* ------------------------------------------------------------ SpecUpload
\* The ingestion step alone, with longer uploads.
NextUpload ==
    \/ \E key \in ApiKeys : SetApiKey(key)
    \/ \E files \in Uploads(MaxFilesUpload) : Upload(files)
    \/ StartOver

SpecUpload == InitApp /\ [][NextUpload]_vars

\* ------------------------------------------------------------ the game
\* A question of the quiz is a record [question_type, options,
\* correct_answer_index, correct_answer]; correct_answer and the text the
\* player types are sequences of characters.

\* The wizard state other than wizard_step
app_rest == <<uploaded_files, upload_signature, analysis_signature, analysis_result,
              api_key, last_pass, pass_parity, analyzed_files, forced>>

\* re.sub(r'[^\w\s]', '', s) on the characters of the model
RemovePunctuation(s) == SelectSeq(s, LAMBDA c : c \notin {".", ",", "!", "?"})

\* check_answer of modules/gamification.py (lines 205-244)
check_answer(selected_index, correct_index, user_text, correct_text, question_type) ==
    IF question_type = "short_answer"
    THEN LET user_clean == Lower(Strip(user_text))
             correct_clean == Lower(Strip(correct_text))
         IN  \/ user_clean = correct_clean
             \/ RemovePunctuation(user_clean) = RemovePunctuation(correct_clean)
    ELSE selected_index = correct_index

\* process_answer without lines 1318-1319, the update of max_streak
process_answerKeepsMax(question, selected_idx, user_text) ==
    LET is_correct == check_answer(selected_idx, question.correct_answer_index,
                                   user_text, question.correct_answer,
                                   question.question_type)
    IN  /\ score' = IF is_correct THEN score + 10 + Min(streak, 5) ELSE score
        /\ streak' = IF is_correct THEN streak + 1 ELSE 0
        /\ max_streak' = max_streak
        /\ wrong_answers' = IF is_correct THEN wrong_answers
                            ELSE Append(wrong_answers, question)
        /\ answer_submitted' = TRUE
        /\ answered' = Append(answered, [index |-> current_question_index,
                                         correct |-> is_correct])

\* process_answer (lines 1302-1324)
process_answer(question, selected_idx, user_text) ==
    LET is_correct == check_answer(selected_idx, question.correct_answer_index,
                                   user_text, question.correct_answer,
                                   question.question_type)
    IN  /\ score' = IF is_correct THEN score + 10 + Min(streak, 5) ELSE score
        /\ streak' = IF is_correct THEN streak + 1 ELSE 0
        /\ max_streak' = IF is_correct /\ streak + 1 > max_streak
                         THEN streak + 1 ELSE max_streak
        /\ wrong_answers' = IF is_correct THEN wrong_answers
                            ELSE Append(wrong_answers, question)
        /\ answer_submitted' = TRUE
        /\ answered' = Append(answered, [index |-> current_question_index,
                                         correct |-> is_correct])

\* render_play_mode shows a question (lines 1152-1161 and main, 1445-1448)
Playing ==
    /\ game_mode = "play"
    /\ wizard_step = "play"
    /\ current_question_index < Len(quiz_data)

\* current_q = quiz_data[current_idx]
current_q == quiz_data[current_question_index + 1]

\* start_game (lines 247-256), from "Start Playing" on the action step
\* (line 1036) or "Play Again" on the results screen (line 1392)
start_game ==
    /\ \/ game_mode = "setup" /\ wizard_step = "play"
       \/ game_mode = "play" /\ wizard_step = "results"
    /\ game_mode' = "play"
    /\ wizard_step' = "play"
    /\ current_question_index' = 0
    /\ score' = 0
    /\ streak' = 0
    /\ max_streak' = 0
    /\ wrong_answers' = <<>>
    /\ answer_submitted' = FALSE
    /\ answered' = <<>>
    /\ UNCHANGED <<quiz_data, selected_answer, user_text_answer, app_rest, session,
                   normalizer, legacy, extra>>

\* Lines 1156-1159: no question is left, the results screen is next.
PlayPastEnd ==
    /\ game_mode = "play"
    /\ wizard_step = "play"
    /\ current_question_index >= Len(quiz_data)
    /\ wizard_step' = "results"
    /\ UNCHANGED <<game, app_rest, session, normalizer, legacy, extra>>

\* The buttons render_mc_options and render_tf_options show for current_q
OptionButtons ==
    IF current_q.question_type = "multiple_choice"
    THEN 0..(Len(current_q.options) - 1)
    ELSE {0, 1}

\* An option button that is still shown after the answer was submitted
ClickOptionAgain(i) ==
    /\ Playing
    /\ current_q.question_type \in {"multiple_choice", "true_false"}
    /\ i \in OptionButtons
    /\ selected_answer' = i
    /\ process_answer(current_q, i, <<>>)
    /\ UNCHANGED <<game_mode, quiz_data, current_question_index, user_text_answer,
                   wizard_step, app_rest, session, normalizer, legacy, extra>>

\* Lines 1259-1266 and 1274-1283: an option button is clicked.
ClickOption(i) ==
    /\ Playing
    /\ ~answer_submitted
    /\ current_q.question_type \in {"multiple_choice", "true_false"}
    /\ i \in OptionButtons
    /\ selected_answer' = i
    /\ process_answer(current_q, i, <<>>)
    /\ UNCHANGED <<game_mode, quiz_data, current_question_index, user_text_answer,
                   wizard_step, app_rest, session, normalizer, legacy, extra>>

\* Lines 1288-1299: a text is typed and "Submit Answer" is clicked (the button
\* is disabled while the text is empty).
SubmitText(user_answer) ==
    /\ Playing
    /\ ~answer_submitted
    /\ current_q.question_type \notin {"multiple_choice", "true_false"}
    /\ user_answer # <<>>
    /\ user_text_answer' = user_answer
    /\ process_answer(current_q, -1, user_answer)
    /\ UNCHANGED <<game_mode, quiz_data, current_question_index, selected_answer,
                   wizard_step, app_rest, session, normalizer, legacy, extra>>

\* Lines 1237-1243: "Next Question"
NextQuestion ==
    /\ Playing
    /\ answer_submitted
    /\ current_question_index + 1 < Len(quiz_data)
    /\ current_question_index' = current_question_index + 1
    /\ answer_submitted' = FALSE
    /\ selected_answer' = None
    /\ user_text_answer' = <<>>
    /\ UNCHANGED <<game_mode, quiz_data, score, streak, max_streak, wrong_answers,
                   answered, wizard_step, app_rest, session, normalizer, legacy,
                   extra>>

\* Lines 1244-1247: "See Results" after the last question
SeeResults ==
    /\ Playing
    /\ answer_submitted
    /\ current_question_index + 1 >= Len(quiz_data)
    /\ wizard_step' = "results"
    /\ UNCHANGED <<game, app_rest, session, normalizer, legacy, extra>>

\* The questions a quiz is made of
QuizPool ==
    { [question_type |-> "multiple_choice", options |-> <<"a", "b", "c", "d">>,
       correct_answer_index |-> 1, correct_answer |-> <<"b">>],
      [question_type |-> "true_false", options |-> <<"True", "False">>,
       correct_answer_index |-> 0, correct_answer |-> <<"T">>],
      [question_type |-> "short_answer", options |-> <<>>,
       correct_answer_index |-> -1, correct_answer |-> <<"a", " ", "b">>] }

\* The texts the player types
UserTexts == { <<"A", " ", "b", ".">>, <<"a", "b">> }

\* The action step with a quiz of 0..MaxQuiz questions (lines 987-988, 1036)
InitPlay ==
    /\ quiz_data \in UNION {[1..n -> QuizPool] : n \in 0..MaxQuiz}
    /\ GameFresh
    /\ wizard_step = "play"
    /\ uploaded_files = <<>>
    /\ upload_signature = None
    /\ analysis_signature = None
    /\ analysis_result = None
    /\ api_key = <<>>
    /\ last_pass = "none"
    /\ pass_parity = FALSE
    /\ analyzed_files = <<>>
    /\ forced = FALSE
    /\ InitSession({0}, {0}, {0}, {1})
    /\ NormalizerIdle
    /\ LegacyIdle
    /\ ExtraIdle

NextPlay ==
    \/ start_game
    \/ PlayPastEnd
    \/ \E i \in 0..3 : ClickOption(i)
    \/ \E user_answer \in UserTexts : SubmitText(user_answer)
    \/ NextQuestion
    \/ SeeResults

SpecPlay == InitPlay /\ [][NextPlay]_vars

\* ============================================================ src/backend.py
\* generate_full_quiz (the same code is in src/app.py, lines 562-643).  A batch
\* request and a batch response are records [mc, tf, sa] of question counts.

\* batch_size = 10 (line 286)
legacy_batch_size == 10

\* total_questions = mc_total + tf_total + sa_total
total_questions == mc_total + tf_total + sa_total

\* num_batches = (total_questions + batch_size - 1) // batch_size
num_batches == (total_questions + legacy_batch_size - 1) \div legacy_batch_size

\* batch_total = min(batch_size, total_questions - len(all_questions))
batch_total == Min(legacy_batch_size, total_questions - legacy_len)

\* Lines 302-303: min(remaining, max(1, int(batch_total * total / total_questions))
\*                                 if remaining > 0 else 0)
Proportional(type_total, type_remaining) ==
    Min(type_remaining,
        IF type_remaining > 0
        THEN Max(1, (batch_total * type_total) \div total_questions)
        ELSE 0)

\* Lines 302-317 only: the counts before the batch is filled up
InBatchNoFill ==
    LET mc1 == Proportional(mc_total, mc_remaining)
        tf1 == Proportional(tf_total, tf_remaining)
        sa1 == batch_total - mc1 - tf1
        mc2 == IF sa1 < 0 /\ ~(tf1 > 0) THEN batch_total ELSE mc1
        tf2 == IF sa1 < 0 /\ tf1 > 0 THEN batch_total - mc1 ELSE tf1
        sa2 == IF sa1 < 0 THEN 0 ELSE sa1
    IN  [mc |-> Min(mc2, mc_remaining), tf |-> Min(tf2, tf_remaining),
         sa |-> Min(sa2, sa_remaining)]

\* Lines 302-333: mc_in_batch, tf_in_batch, sa_in_batch of the batch
InBatch ==
    LET mc1 == Proportional(mc_total, mc_remaining)
        tf1 == Proportional(tf_total, tf_remaining)
        sa1 == batch_total - mc1 - tf1
        \* lines 307-312
        mc2 == IF sa1 < 0 /\ ~(tf1 > 0) THEN batch_total ELSE mc1
        tf2 == IF sa1 < 0 /\ tf1 > 0 THEN batch_total - mc1 ELSE tf1
        sa2 == IF sa1 < 0 THEN 0 ELSE sa1
        \* lines 315-317
        mc3 == Min(mc2, mc_remaining)
        tf3 == Min(tf2, tf_remaining)
        sa3 == Min(sa2, sa_remaining)
        \* lines 320-333
        diff == batch_total - (mc3 + tf3 + sa3)
        add_mc == IF diff > 0 /\ mc_remaining - mc3 > 0
                  THEN Min(diff, mc_remaining - mc3) ELSE 0
        diff_tf == diff - add_mc
        add_tf == IF diff_tf > 0 /\ tf_remaining - tf3 > 0
                  THEN Min(diff_tf, tf_remaining - tf3) ELSE 0
        diff_sa == diff_tf - add_tf
        add_sa == IF diff_sa > 0 /\ sa_remaining - sa3 > 0
                  THEN Min(diff_sa, sa_remaining - sa3) ELSE 0
    IN  [mc |-> mc3 + add_mc, tf |-> tf3 + add_tf, sa |-> sa3 + add_sa]

\* Lines 297-343: the next batch is planned and generate_quiz_batch is called.
PlanBatch ==
    /\ legacy_pc = "loop"
    /\ in_batch = NoBatch
    /\ batch_num < num_batches
    /\ batch_num' = batch_num + 1
    /\ in_batch' = InBatch
    /\ planned' = [mc |-> planned.mc + InBatch.mc, tf |-> planned.tf + InBatch.tf,
                   sa |-> planned.sa + InBatch.sa]
    /\ UNCHANGED <<mc_total, tf_total, sa_total, legacy_len, mc_remaining,
                   tf_remaining, sa_remaining, batch_exact, legacy_pc, session, app,
                   normalizer, game, extra>>

\* What generate_quiz_batch may hold for the request: the questions asked for,
\* or none
BatchResponses(asked) == {asked, [mc |-> 0, tf |-> 0, sa |-> 0]}

\* Lines 345-364: the batch came back with questions (counts by type).
BatchReturns(questions) ==
    /\ legacy_pc = "loop"
    /\ in_batch # NoBatch
    /\ questions \in BatchResponses(in_batch)
    /\ legacy_len' = legacy_len + questions.mc + questions.tf + questions.sa
    /\ mc_remaining' = mc_remaining - questions.mc
    /\ tf_remaining' = tf_remaining - questions.tf
    /\ sa_remaining' = sa_remaining - questions.sa
    /\ batch_exact' = (batch_exact /\ questions = in_batch)
    /\ in_batch' = NoBatch
    /\ UNCHANGED <<mc_total, tf_total, sa_total, batch_num, planned, legacy_pc,
                   session, app, normalizer, game, extra>>

\* Lines 340-343: generate_quiz_batch raised (the API call or json.loads).
BatchRaises ==
    /\ legacy_pc = "loop"
    /\ in_batch # NoBatch
    /\ in_batch' = NoBatch
    /\ legacy_pc' = "raised"
    /\ UNCHANGED <<mc_total, tf_total, sa_total, batch_num, legacy_len, mc_remaining,
                   tf_remaining, sa_remaining, planned, batch_exact, session, app,
                   normalizer, game, extra>>

\* Lines 366-377: the loop is over; **quiz_metadata raises when no batch ran.
LegacyReturn ==
    /\ legacy_pc = "loop"
    /\ in_batch = NoBatch
    /\ batch_num >= num_batches
    /\ legacy_pc' = IF num_batches = 0 THEN "raised" ELSE "done"
    /\ UNCHANGED <<mc_total, tf_total, sa_total, batch_num, legacy_len, mc_remaining,
                   tf_remaining, sa_remaining, in_batch, planned, batch_exact,
                   session, app, normalizer, game, extra>>

\* Lines 285-295: generate_full_quiz starts.
InitLegacy ==
    /\ mc_total \in 0..MaxPlanned
    /\ tf_total \in 0..MaxPlanned
    /\ sa_total \in 0..MaxPlanned
    /\ batch_num = 0
    /\ legacy_len = 0
    /\ mc_remaining = mc_total
    /\ tf_remaining = tf_total
    /\ sa_remaining = sa_total
    /\ in_batch = NoBatch
    /\ planned = [mc |-> 0, tf |-> 0, sa |-> 0]
    /\ batch_exact = TRUE
    /\ legacy_pc = "loop"
    /\ InitSession({0}, {0}, {0}, {1})
    /\ AppIdle
    /\ NormalizerIdle
    /\ GameFresh
    /\ ExtraIdle
    /\ quiz_data = <<>>

NextLegacy ==
    \/ PlanBatch
    \/ \E questions \in BatchResponses(in_batch) : BatchReturns(questions)
    \/ BatchRaises
    \/ LegacyReturn

SpecLegacy == InitLegacy /\ [][NextLegacy]_vars

\* ============================================================ the editor
\* quiz_to_dataframe and dataframe_to_quiz of src/modules/content_generator.py.
\* A DataFrame is a record [rows |-> the sequence of its rows]; a row is a
\* function from the column names to the cell values.  question_type and
\* "Type" are sequences of characters, every other string is atomic.
\* dict.get(key, default)
Get(d, key, default) == IF key \in DOMAIN d THEN d[key] ELSE default

\* options[i] if len(options) > i else ""
OptionAt(options, i) == IF Len(options) > i THEN options[i + 1] ELSE ""

\* "; ".join of n "l:r" strings, n from 1 to 10
JoinedPairs ==
    <<"l:r",
      "l:r; l:r",
      "l:r; l:r; l:r",
      "l:r; l:r; l:r; l:r",
      "l:r; l:r; l:r; l:r; l:r",
      "l:r; l:r; l:r; l:r; l:r; l:r",
      "l:r; l:r; l:r; l:r; l:r; l:r; l:r",
      "l:r; l:r; l:r; l:r; l:r; l:r; l:r; l:r",
      "l:r; l:r; l:r; l:r; l:r; l:r; l:r; l:r; l:r",
      "l:r; l:r; l:r; l:r; l:r; l:r; l:r; l:r; l:r; l:r">>

\* Lines 599-602: "; ".join of the "left:right" strings of the first ten
\* pairs; every pair of the model is l:r
PairsStr(pairs) ==
    IF pairs = <<>> THEN "" ELSE JoinedPairs[Min(Len(pairs), 10)]

\* Lines 661-667: the pairs read back from the cell Option A, one for each
\* part of pairs_str.split(";") that holds a colon
PairsOfStr(pairs_str) ==
    IF \E n \in 1..10 : JoinedPairs[n] = pairs_str
    THEN [i \in 1..(CHOOSE n \in 1..10 : JoinedPairs[n] = pairs_str) |->
            [left |-> "l", right |-> "r"]]
    ELSE <<>>

\* Lines 583-607: the row of question q, the i-th of the list (i from 0)
QuizRow(i, q) ==
    LET the_type == Get(q, "question_type", MultipleChoice)
        options == Get(q, "options", <<>>)
        is_matching == the_type = Matching /\ "pairs" \in DOMAIN q
    IN  ("Index" :> i + 1)
     @@ ("Type" :> the_type)
     @@ ("Question" :> Get(q, "question_text", <<>>))
     @@ ("Option A" :> IF is_matching THEN PairsStr(q.pairs)
                       ELSE OptionAt(options, 0))
     @@ ("Option B" :> IF is_matching THEN "(matching pairs)"
                       ELSE OptionAt(options, 1))
     @@ ("Option C" :> IF is_matching THEN "" ELSE OptionAt(options, 2))
     @@ ("Option D" :> IF is_matching THEN "" ELSE OptionAt(options, 3))
     @@ ("Correct Answer" :> Get(q, "correct_answer", ""))
     @@ ("Explanation" :> Get(q, "explanation", ""))
     @@ ("Misconception" :> Get(q, "misconception_tag", ""))

\* quiz_to_dataframe(questions) (lines 569-610)
quiz_to_dataframe(questions) ==
    [rows |-> [i \in 1..Len(questions) |-> QuizRow(i - 1, questions[i])]]

\* Lines 632-639: type_map.get(the_type, the_type)
type_map(t) ==
    CASE t = <<"m", "c">> -> MultipleChoice
      [] t = <<"t", "f">> -> TrueFalse
      [] t = <<"s", "a">> -> ShortAnswer
      [] t = <<"m", "a", "t", "c", "h">> -> Matching
      [] t = <<"f", "i", "b">> -> FillInBlank
      [] OTHER -> t

\* o.strip() is empty
IsBlank(o) == o \in {"", " "}

\* Lines 643-654: the four option cells without the blank ones, padded with
\* "" to four
RowOptions(row) ==
    PadTo4(SelectSeq(<<row["Option A"], row["Option B"], row["Option C"],
                       row["Option D"]>>,
                     LAMBDA o : ~IsBlank(o)))

\* Lines 627-691: the question of a row
RowQuestion(row) ==
    LET the_type == type_map(Replace(Lower(row["Type"]), " ", "_"))
        correct_answer == row["Correct Answer"]
        options == CASE the_type = MultipleChoice -> RowOptions(row)
                     [] the_type = TrueFalse -> <<"True", "False">>
                     [] OTHER -> <<>>
        correct_index ==
            IF the_type = MultipleChoice
               /\ \E i \in 1..Len(options) : options[i] = correct_answer
            THEN FirstIndex(options, correct_answer)
            ELSE IF the_type = TrueFalse
            THEN (IF SaysTrue(correct_answer) THEN 0 ELSE 1)
            ELSE -1
        question ==
            [question_text |-> row["Question"],
             question_type |-> the_type,
             options |-> options,
             correct_answer_index |-> correct_index,
             correct_answer |-> correct_answer,
             explanation |-> row["Explanation"],
             misconception_tag |-> row["Misconception"]]
    IN  IF the_type = Matching
        THEN ("pairs" :> PairsOfStr(row["Option A"])) @@ question
        ELSE question

\* dataframe_to_quiz(df) (lines 613-696)
dataframe_to_quiz(df) == [i \in 1..Len(df.rows) |-> RowQuestion(df.rows[i])]

\* ------------------------------------------------------------ SpecEditor
\* Line 514: q["question_type"] = expected_type, on a validated question
Filed(question, category) == [question EXCEPT !.question_type = category]

\* The records the oracle writes for the editor model
EditorRaws ==
    { RawQuestion(t, answer, TRUE, options, FALSE, 0) :
        t \in {MultipleChoice, TrueFalse, ShortAnswer},
        answer \in {"a", "e", "True", "False"},
        options \in {<<"a", "b">>, <<"a", "b", "c", "d">>,
                     <<"a", "b", "c", "d", "e">>, <<"True", "False">>,
                     <<"False", "True">>} }
    \cup { RawQuestion(t, answer, FALSE, <<>>, FALSE, 0) :
             t \in {TrueFalse, ShortAnswer}, answer \in {"a", "True", "False"} }

\* The questions generate_quiz_from_analysis_batched returns: validated by
\* generate_quiz, then filed under the category of the loop that asked
GeneratedItems ==
    { Filed(_validate_question(raw), category) :
        raw \in {r \in EditorRaws : _validate_question(r) # NoQuestion},
        category \in {MultipleChoice, TrueFalse, ShortAnswer} }

\* Lines 844-867 of src/main.py: a quiz has been generated and stored.
InitEditor ==
    /\ generated \in UNION {[1..n -> GeneratedItems] : n \in 1..MaxQuizEditor}
    /\ quiz_data = generated
    /\ quiz_df = quiz_to_dataframe(generated)
    /\ wizard_step = "editor"
    /\ uploaded_files = <<>>
    /\ upload_signature = None
    /\ analysis_signature = None
    /\ analysis_result = VisionAnalysis
    /\ api_key = <<>>
    /\ last_pass = "none"
    /\ pass_parity = FALSE
    /\ analyzed_files = <<>>
    /\ forced = FALSE
    /\ GameFresh
    /\ InitSession({0}, {0}, {0}, {1})
    /\ NormalizerIdle
    /\ LegacyIdle
    /\ TwiceIdle
    /\ ExporterIdle

\* Lines 925-953 of src/main.py: render_editor_step runs and the user has
\* edited nothing: st.data_editor returns the rows it was given.
EditorPass ==
    /\ wizard_step = "editor"
    /\ quiz_df # NoQuestion
    /\ quiz_df' = quiz_df
    /\ quiz_data' = dataframe_to_quiz(quiz_df)
    /\ UNCHANGED <<generated, game_mode, current_question_index, score, streak,
                   max_streak, wrong_answers, answer_submitted, selected_answer,
                   user_text_answer, answered, wizard_step, app_rest, session,
                   normalizer, legacy, twice, exporter>>

NextEditor == EditorPass

SpecEditor == InitEditor /\ [][NextEditor]_vars

\* ============================================================ the exporter
\* create_json_export and import_from_json of src/modules/exporter.py.
\* A Python dict is a function from its keys; None is NoQuestion.  A JSON text
\* is [valid |-> FALSE] when json.loads rejects it, else [valid |-> TRUE,
\* data |-> its value]; a JSON value is [kind |-> ..., value |-> ...] with kind
\* one of "object", "array", "string", "number", "null".  An object's value is
\* a function from member names to JSON values, an array's a sequence of JSON
\* values; the leaves of a question, of metadata, of the settings and of the
\* game state are kept as Python holds them.
\* Line 21
QUIZ_SCHEMA_VERSION == "2.0"

\* bool(d) of a dict or None
Truthy(d) == d # NoQuestion /\ d # <<>>

JsonObject(d) == [kind |-> "object", value |-> d]
JsonString(s) == [kind |-> "string", value |-> s]
JsonArray(elements) == [kind |-> "array", value |-> elements]

\* Lines 504-514: the safe fields of analysis_result
safe_analysis(analysis) ==
    [transcribed_text |-> Get(analysis, "transcribed_text", ""),
     subject |-> Get(analysis, "subject", ""),
     detected_grade_level |-> Get(analysis, "detected_grade_level", ""),
     core_concept |-> Get(analysis, "core_concept", ""),
     language |-> Get(analysis, "language", ""),
     key_terms |-> Get(analysis, "key_terms", <<>>),
     content_summary |-> Get(analysis, "content_summary", "")]

\* Lines 492-494: metadata.copy() if metadata else {}, then schema_version
full_metadata(metadata) ==
    ("schema_version" :> QUIZ_SCHEMA_VERSION)
    @@ (IF Truthy(metadata) THEN metadata ELSE <<>>)

\* Lines 516-517 as a test for "is not None"
SettingsMember(quiz_settings) ==
    IF quiz_settings # NoQuestion
    THEN ("quiz_settings" :> JsonObject(quiz_settings)) ELSE <<>>

\* Lines 516-517: if quiz_settings: export_data["quiz_settings"] = ...
SettingsMemberIfTruthy(quiz_settings) ==
    IF Truthy(quiz_settings)
    THEN ("quiz_settings" :> JsonObject(quiz_settings)) ELSE <<>>

\* create_json_export (lines 466-523); now is datetime.now().isoformat().
\* json.dumps writes a dict as an object, a list as an array, a str as a
\* string.
create_json_export(questions, metadata, analysis, quiz_settings, game_state, now) ==
    LET export_data ==
            ("schema_version" :> JsonString(QUIZ_SCHEMA_VERSION))
         @@ ("created_at" :> JsonString(now))
         @@ ("metadata" :> JsonObject(full_metadata(metadata)))
         @@ ("questions" :>
                JsonArray([i \in 1..Len(questions) |-> JsonObject(questions[i])]))
         @@ (IF Truthy(analysis)
             THEN ("analysis_result" :> JsonObject(safe_analysis(analysis)))
             ELSE <<>>)
         @@ SettingsMemberIfTruthy(quiz_settings)
         @@ (IF Truthy(game_state)
             THEN ("game_state" :> JsonObject(game_state)) ELSE <<>>)
    IN  [valid |-> TRUE, data |-> JsonObject(export_data)]

\* raise ValueError(...)
ValueError == [error |-> "ValueError"]

\* json.loads of a member or an element: the Python value of a JSON value;
\* null is None
Loaded(json) == IF json.kind = "null" THEN NoQuestion ELSE json.value

\* data.get(key), None when the member is missing
Member(data, key) == IF key \in DOMAIN data THEN Loaded(data[key]) ELSE NoQuestion

\* Lines 585-594: the defaults of the seven fields
QuestionDefaults ==
    [question_text |-> <<>>, question_type |-> MultipleChoice, options |-> <<>>,
     correct_answer |-> "", correct_answer_index |-> -1, explanation |-> "",
     misconception_tag |-> ""]

\* Lines 582-600: the elements that are objects with a non-empty
\* question_text, each with the seven fields and its extra keys
RECURSIVE normalized_questions(_)
normalized_questions(elements) ==
    IF elements = <<>> THEN <<>>
    ELSE LET q == Head(elements)
         IN  IF q.kind = "object" /\ Get(q.value, "question_text", <<>>) # <<>>
             THEN <<q.value @@ QuestionDefaults>>
                  \o normalized_questions(Tail(elements))
             ELSE normalized_questions(Tail(elements))

\* Lines 565-574: metadata, {} unless an object, with the root's
\* schema_version or version
ImportedMetadata(data) ==
    LET metadata == IF "metadata" \in DOMAIN data /\ data["metadata"].kind = "object"
                    THEN data["metadata"].value ELSE <<>>
    IN  IF "schema_version" \in DOMAIN data
        THEN ("schema_version" :> Loaded(data["schema_version"])) @@ metadata
        ELSE IF "version" \in DOMAIN data
        THEN ("schema_version" :> Loaded(data["version"])) @@ metadata
        ELSE metadata

\* import_from_json (lines 526-605): the tuple it returns, or ValueError
import_from_json(text) ==
    IF ~text.valid THEN ValueError
    ELSE IF text.data.kind = "array"
    THEN [questions |-> [i \in 1..Len(text.data.value) |->
                            Loaded(text.data.value[i])],
          metadata |-> <<>>, analysis_result |-> NoQuestion,
          quiz_settings |-> NoQuestion, game_state |-> NoQuestion]
    ELSE IF text.data.kind # "object" THEN ValueError
    ELSE LET data == text.data.value
         IN  IF "questions" \notin DOMAIN data THEN ValueError
             ELSE IF data["questions"].kind # "array" THEN ValueError
             ELSE [questions |-> normalized_questions(data["questions"].value),
                   metadata |-> ImportedMetadata(data),
                   analysis_result |-> Member(data, "analysis_result"),
                   quiz_settings |-> Member(data, "quiz_settings"),
                   game_state |-> Member(data, "game_state")]

\* ------------------------------------------------------------ SpecJson
\* Canonical questions with a non-empty question_text
CanonicalItems ==
    { _validate_question(RawQuestion(MultipleChoice, "a", TRUE,
                                     <<"a", "b", "c", "d">>, FALSE, 0)),
      _validate_question(RawQuestion(Matching, "a", TRUE, <<"l:r">>, FALSE, 0)) }

\* The metadata, analysis_result, quiz_settings and game_state arguments
Metadatas ==
    {NoQuestion, <<>>, ("title" :> "T"),
     ("title" :> "T") @@ ("schema_version" :> "1.0")}
Analyses == {NoQuestion, ("subject" :> "math") @@ ("raw_response" :> "raw")}
Settings == {NoQuestion, <<>>, ("difficulty" :> "easy")}
GameStates == {NoQuestion, <<>>, ("current_index" :> 1) @@ ("score" :> 10)}
Nows == {"t1", "t2"}

\* JSON texts that create_json_export did not write
JsonNumber == [kind |-> "number", value |-> 42]
JsonNull == [kind |-> "null", value |-> NoQuestion]
ForeignQuestions ==
    JsonArray(<<JsonString("x"),
                JsonObject([question_text |-> <<"Q">>]),
                JsonObject([question_text |-> <<>>, correct_answer |-> "a"])>>)
ForeignTexts ==
    { [valid |-> FALSE],
      [valid |-> TRUE, data |-> JsonNumber],
      [valid |-> TRUE, data |-> JsonString("x")],
      [valid |-> TRUE, data |-> JsonNull],
      [valid |-> TRUE, data |-> ForeignQuestions],
      [valid |-> TRUE, data |-> JsonObject(<<>>)],
      [valid |-> TRUE, data |-> JsonObject("metadata" :> JsonObject(<<>>))],
      [valid |-> TRUE, data |-> JsonObject("questions" :> JsonObject(<<>>))],
      [valid |-> TRUE, data |-> JsonObject("questions" :> JsonNull)],
      [valid |-> TRUE,
       data |-> JsonObject(("questions" :> ForeignQuestions)
                           @@ ("version" :> JsonString("1.0"))
                           @@ ("metadata" :> JsonString("x"))
                           @@ ("game_state" :> JsonNull))] }

InitJson ==
    /\ ExporterIdle
    /\ EditorIdle
    /\ TwiceIdle
    /\ quiz_data = <<>>
    /\ wizard_step = "upload"
    /\ uploaded_files = <<>>
    /\ upload_signature = None
    /\ analysis_signature = None
    /\ analysis_result = None
    /\ api_key = <<>>
    /\ last_pass = "none"
    /\ pass_parity = FALSE
    /\ analyzed_files = <<>>
    /\ forced = FALSE
    /\ GameFresh
    /\ InitSession({0}, {0}, {0}, {1})
    /\ NormalizerIdle
    /\ LegacyIdle

\* create_json_export is called
Export ==
    \E questions \in UNION {[1..n -> CanonicalItems] : n \in 0..MaxQuizJson},
       metadata \in Metadatas, analysis \in Analyses, settings \in Settings,
       state \in GameStates, now \in Nows :
        /\ exported' = [questions |-> questions, metadata |-> metadata,
                        analysis_result |-> analysis, quiz_settings |-> settings,
                        game_state |-> state]
        /\ json_string' = create_json_export(questions, metadata, analysis,
                                             settings, state, now)
        /\ imported' = NoQuestion
        /\ UNCHANGED <<normalizer, game, legacy, twice, editor, session, app>>

\* A text from elsewhere is offered for import
Receive ==
    \E text \in ForeignTexts :
        /\ json_string' = text
        /\ exported' = NoQuestion
        /\ imported' = NoQuestion
        /\ UNCHANGED <<normalizer, game, legacy, twice, editor, session, app>>

\* import_from_json(json_string) is called
Import ==
    /\ json_string # NoQuestion
    /\ imported' = import_from_json(json_string)
    /\ UNCHANGED <<json_string, exported>>
    /\ UNCHANGED <<normalizer, game, legacy, twice, editor, session, app>>

NextJson == Export \/ Receive \/ Import

SpecJson == InitJson /\ [][NextJson]_vars

\* ============================================================ claims
\* The fingerprint as the specification words it:
\* lowercase(collapse_whitespace(trim(text))).
Fingerprint(text) == Lower(CollapseWs(Strip(text)))

\* The target of a category.
TargetOf(qtype) ==
    CASE qtype = "multiple_choice" -> mc_count
      [] qtype = "true_false" -> tf_count
      [] qtype = "short_answer" -> sa_count

IsPrefix(s, t) == Len(s) <= Len(t) /\ SubSeq(t, 1, Len(s)) = s

\* C1 as stated: the returned list holds, for each category c, at most target[c]
\* questions of category c, top-up included.
C1_QuotaNonExceedance ==
    pc = "done" =>
        \A c \in QuestionTypes : TypeCount(result, c) <= TargetOf(c)

\* C1 amended: true_false and short_answer never exceed their targets and the
\* list never exceeds the sum of the targets; multiple_choice is within its
\* target until the top-up call, whose questions are all filed as
\* multiple_choice and may take it past its target.
C1_QuotaAmended ==
    /\ \A c \in {"true_false", "short_answer"} :
          /\ TypeCount(all_questions, c) <= TargetOf(c)
          /\ TypeCount(result, c) <= TargetOf(c)
    /\ Len(all_questions) <= total_requested
    /\ Len(result) <= total_requested
    /\ (pc \in CategoryPhases \/ (pc = "topup" /\ calls = 0)) =>
          TypeCount(all_questions, "multiple_choice") <= mc_count

\* C1 witness: a finished session whose top-up call took multiple_choice past
\* its target while true_false sits exactly at its own.
C1_Witness ==
    /\ pc = "done"
    /\ calls = 1
    /\ tf_count > 0
    /\ TypeCount(result, "true_false") = tf_count
    /\ TypeCount(result, "multiple_choice") > mc_count

\* C2: no two accepted questions, and so no two returned questions, share a
\* fingerprint, whatever categories they were accepted under.
C2_Uniqueness ==
    /\ \A i, j \in 1..Len(all_questions) :
          i # j => Fingerprint(all_questions[i].question_text)
                     # Fingerprint(all_questions[j].question_text)
    /\ \A i, j \in 1..Len(result) :
          i # j => Fingerprint(result[i].question_text)
                     # Fingerprint(result[j].question_text)

\* C2 witness: a returned list with questions of two categories from a session
\* in which the oracle repeated an accepted text.
C2_Witness ==
    /\ pc = "done"
    /\ dup_offered
    /\ Len(result) >= 2
    /\ \E i, j \in 1..Len(result) : result[i].question_type # result[j].question_type

\* C3: the accepted list only grows at its end, and the returned list is a
\* prefix of it no longer than the sum of the targets.
C3_OrderedPrefix ==
    /\ [][IsPrefix(all_questions, all_questions')]_vars
    /\ [](pc = "done" =>
            /\ IsPrefix(result, all_questions)
            /\ Len(result) = Min(Len(all_questions), total_requested)
            /\ Len(result) <= total_requested)

\* C3 witness: a returned list of at least two questions.
C3_Witness == pc = "done" /\ Len(result) >= 2

\* max_attempts as the specification words it.
MaxAttemptsClaim(tgt) == Max(6, CeilDiv(tgt, batch_size) + 4)

\* C4: a category loop makes at most max_attempts calls, the session at most
\* the three limits plus one, and the session ends.
C4_BoundedTermination ==
    /\ [](/\ pc \in CategoryPhases => calls <= MaxAttemptsClaim(target(pc))
          /\ total_calls <= MaxAttemptsClaim(mc_count) + MaxAttemptsClaim(tf_count)
                              + MaxAttemptsClaim(sa_count) + 1)
    /\ <>(pc = "done")

\* C4 witness: a loop that has spent a limit above the floor of 6.
C4_Witness ==
    /\ pc \in CategoryPhases
    /\ calls = MaxAttemptsClaim(target(pc))
    /\ calls > 6

\* C5 as stated: a call that raises leaves the loop where a call returning the
\* empty list would (same attempts, same stagnation count, same position).
C5_FailureLikeEmpty ==
    (pc \in CategoryPhases /\ request # NoRequest) =>
        RoundAfterRaise = RoundAfterBatch(<<>>)

\* C6: no raised call escapes: the function never ends by an exception, is
\* never stuck before it returns, and returns every question it accepted.
C6_FailuresAbsorbed ==
    /\ pc # "raised"
    /\ pc # "done" => ENABLED NextFresh
    /\ Len(progress) = Len(all_questions)
    /\ pc = "done" => result = all_questions

\* C6 witness: a session that saw a call raise and still returned questions,
\* fewer than requested.
C6_Witness ==
    /\ pc = "done"
    /\ failed
    /\ Len(result) > 0
    /\ Len(result) < total_requested

\* C7: while every call returns exactly what was requested, a category loop
\* makes ceil(target / batch_size) calls, no top-up call is made, and the
\* result holds exactly target[c] questions of each category.
C7_ExactFulfilment ==
    exact =>
        /\ pc \in CategoryPhases => calls <= CeilDiv(target(pc), batch_size)
        /\ pc \in {"topup", "trim", "done"} =>
              /\ calls = 0
              /\ total_calls = CeilDiv(mc_count, batch_size)
                                 + CeilDiv(tf_count, batch_size)
                                 + CeilDiv(sa_count, batch_size)
              /\ \A c \in QuestionTypes : TypeCount(all_questions, c) = TargetOf(c)
        /\ pc = "done" =>
              /\ Len(result) = total_requested
              /\ \A c \in QuestionTypes : TypeCount(result, c) = TargetOf(c)

\* C7 witness: target 5, batch_size 10, five questions after one call.
C7_Witness ==
    /\ pc = "done"
    /\ exact
    /\ mc_count = 5 /\ tf_count = 0 /\ sa_count = 0
    /\ batch_size = 10
    /\ total_calls = 1
    /\ Len(result) = 5

\* C8: with the same single question returned by every call, the question is
\* accepted in the session's first round, a loop never runs on after two
\* stagnant rounds, a loop with target >= 2 ends after exactly two stagnant
\* rounds, and the result holds exactly one question.
C8_DuplicateStall ==
    /\ [](/\ pc \in CategoryPhases => stagnant_rounds < 2
          /\ (total_calls >= 1 /\ request = NoRequest) => Len(all_questions) = 1
          /\ (pc = "done" /\ total_requested >= 1) => Len(result) = 1)
    /\ [][(pc \in CategoryPhases /\ pc' # pc /\ target(pc) >= 2) =>
            calls = (IF total_calls = calls THEN 3 ELSE 2)]_vars

\* C8 witness: multiple_choice wanted at least two, made its three calls and
\* the session returned the one question.
C8_Witness ==
    /\ pc = "done"
    /\ mc_count >= 2
    /\ total_calls >= 3
    /\ Len(result) = 1

\* C9: the top-up makes a call exactly when the loops left the session short,
\* makes no second one whatever the first brings, and no call follows it.
C9_TopUpOnce ==
    /\ [](/\ pc \in {"topup", "trim", "done"} => calls <= 1
          /\ (pc = "topup" /\ request # NoRequest) =>
                Len(all_questions) < total_requested
          /\ (pc \in {"trim", "done"} /\ calls = 0) =>
                Len(all_questions) >= total_requested
          /\ pc \in {"trim", "done"} => request = NoRequest)
    /\ [][(pc = "topup" /\ request # NoRequest) => pc' = "trim"]_vars
    /\ [][(pc \in {"trim", "done"}) => UNCHANGED total_calls]_vars

\* C9 witness: the top-up call was made, the session is still short, and it
\* has returned.
C9_Witness ==
    /\ pc = "done"
    /\ calls = 1
    /\ Len(result) < total_requested

\* overshoot(r) as the specification words it.
ClaimOvershoot(r) ==
    IF r <= 3 THEN 2
    ELSE IF r <= 10 THEN 3
    ELSE Min(5, Max(2, CeilDiv(r, 10)))

\* remaining as the specification words it: the category's outstanding need in
\* a category loop, the aggregate shortfall in the top-up.
ClaimRemaining ==
    IF pc \in CategoryPhases
    THEN TargetOf(expected_type(pc)) - TypeCount(all_questions, expected_type(pc))
    ELSE total_requested - Len(all_questions)

\* C10: every call asks for min(batch_size, remaining + overshoot(remaining))
\* questions with remaining > 0, which lies in 1..batch_size.
C10_Allocator ==
    /\ request # NoRequest =>
          /\ ClaimRemaining > 0
          /\ request.num_questions
               = Min(batch_size, ClaimRemaining + ClaimOvershoot(ClaimRemaining))
          /\ 1 <= request.num_questions
          /\ request.num_questions <= batch_size
    /\ \A r \in 1..MaxRemaining : _overshoot_buffer(r) = ClaimOvershoot(r)

\* C10 witness: a call for remaining > 10 that the batch size does not cap.
C10_Witness ==
    /\ request # NoRequest
    /\ ClaimRemaining > 10
    /\ request.num_questions = ClaimRemaining + 2
    /\ request.num_questions < batch_size

\* The position of a phase in the fixed order of lines 534-539.
PhaseRank(p) ==
    CASE p = "mc" -> 1
      [] p = "tf" -> 2
      [] p = "sa" -> 3
      [] p = "topup" -> 4
      [] OTHER -> 5

\* The category a call made in phase p asks for.
CategoryOfPhase(p) ==
    CASE p = "mc" -> "multiple_choice"
      [] p = "tf" -> "true_false"
      [] p = "sa" -> "short_answer"
      [] OTHER -> "multiple_choice"

\* C11: the phases run in the order multiple_choice, true_false, short_answer,
\* top-up, each left for the one after it and never re-entered, whatever the
\* earlier ones obtained; a call is for the category of the running phase, and
\* a call starts only when none is in flight.
C11_FixedOrder ==
    /\ [][PhaseRank(pc') = PhaseRank(pc) \/ PhaseRank(pc') = PhaseRank(pc) + 1]_vars
    /\ [](request # NoRequest =>
            /\ PhaseRank(pc) <= 4
            /\ request.question_type = CategoryOfPhase(pc))
    /\ [][(total_calls' # total_calls) =>
            /\ request = NoRequest
            /\ request' # NoRequest
            /\ total_calls' = total_calls + 1
            /\ pc' = pc]_vars
    /\ [][(request # NoRequest /\ request' # NoRequest) => request' = request]_vars

\* C11 witness: all three targets are 1; multiple_choice and short_answer got
\* their question, true_false ran dry, and the top-up call is in flight.
C11_Witness ==
    /\ pc = "topup"
    /\ request # NoRequest
    /\ mc_count = 1 /\ tf_count = 1 /\ sa_count = 1
    /\ TypeCount(all_questions, "multiple_choice") = 1
    /\ TypeCount(all_questions, "true_false") = 0
    /\ TypeCount(all_questions, "short_answer") = 1

\* What accept(q) must leave, as the specification words it.
AcceptContract(q) ==
    LET r == _append_unique(q, Current)
        fp == Fingerprint(q.question_text)
    IN  IF fp = <<>> \/ fp \in seen_questions
        THEN /\ r.ok = FALSE
             /\ r.st.seen_questions = seen_questions
             /\ r.st.all_questions = all_questions
             /\ r.st.progress = progress
        ELSE /\ r.ok = TRUE
             /\ r.st.seen_questions = seen_questions \cup {fp}
             /\ r.st.all_questions = all_questions \o <<q>>

\* C12: in every state of a session, _append_unique on any question either
\* refuses it (fingerprint empty or already recorded) and changes nothing and
\* reports no progress, or records the fingerprint, appends the question at
\* the end and returns true.
C12_AcceptContract ==
    \A q \in PoolItems : AcceptContract(q)

\* C12 witness: a session holding an accepted question in which the three
\* cases all arise: a blank text, a repeated text and a new text.
C12_Witness ==
    /\ Len(all_questions) = 1
    /\ \E q \in PoolItems : Fingerprint(q.question_text) = <<>>
    /\ \E q \in PoolItems : Fingerprint(q.question_text) \in seen_questions
    /\ \E q \in PoolItems :
          /\ q.question_text # all_questions[1].question_text
          /\ Fingerprint(q.question_text) \in seen_questions
    /\ \E q \in PoolItems :
          /\ Fingerprint(q.question_text) # <<>>
          /\ Fingerprint(q.question_text) \notin seen_questions

\* C13: progress_callback has been invoked once per accepted question and for
\* nothing else, the i-th invocation with (i, sum of the targets): each report
\* is made before the next question is accepted.
C13_ProgressCallback ==
    /\ [](/\ Len(progress) = Len(all_questions)
          /\ \A i \in 1..Len(progress) : progress[i] = <<i, total_requested>>)
    /\ [][/\ IsPrefix(progress, progress')
          /\ Len(progress') - Len(progress) = Len(all_questions') - Len(all_questions)]_vars

\* C13 witness: two reports, in a session whose oracle also offered a text it
\* had already accepted.
C13_Witness ==
    /\ pc = "done"
    /\ dup_offered
    /\ progress = << <<1, total_requested>>, <<2, total_requested>> >>

\* The artifact of an uploaded file: identifier, byte length, content hash.
Artifact(f) == <<f.name, Len(f.content), Md5Hex12(f.content)>>

\* u is v in some order
IsPermutation(u, v) ==
    /\ Len(u) = Len(v)
    /\ \E p \in Permutations(1..Len(u)) : \A i \in 1..Len(u) : u[i] = v[p[i]]

\* u and v consist of the same artifacts, as multisets
SameArtifacts(u, v) ==
    /\ Len(u) = Len(v)
    /\ \E p \in Permutations(1..Len(u)) :
          \A i \in 1..Len(u) : Artifact(u[i]) = Artifact(v[p[i]])

AllReadable(files) == \A i \in 1..Len(files) : ~files[i].closed

\* C14: the stored signature is the signature of the uploaded files in every
\* order; computing it again gives the same string and leaves the files as
\* they are, every readable one at position 0.
C14_OrderIndependent ==
    uploaded_files # <<>> =>
        /\ \A p \in Permutations(1..Len(uploaded_files)) :
              _compute_upload_signature([i \in 1..Len(uploaded_files) |->
                                            uploaded_files[p[i]]]) = upload_signature
        /\ _compute_upload_signature(FilesAfterSignature(uploaded_files))
              = upload_signature
        /\ FilesAfterSignature(uploaded_files) = uploaded_files
        /\ \A i \in 1..Len(uploaded_files) :
              ~uploaded_files[i].closed => uploaded_files[i].pos = 0

\* C14 witness: three files uploaded in an order that is not the sorted one,
\* among them the file the uploader handed over at its end.
C14_Witness ==
    /\ Len(uploaded_files) = 3
    /\ uploaded_files[1].name = NameY
    /\ uploaded_files[3].name = NameX
    /\ AllReadable(uploaded_files)

\* C15 as stated: the signature of the readable files uploaded now equals the
\* signature of the readable files analysed last exactly when the two uploads
\* consist of the same artifacts (identifier, byte length, content hash).
C15_SignatureSensitive ==
    (/\ uploaded_files # <<>> /\ analyzed_files # <<>>
     /\ AllReadable(uploaded_files) /\ AllReadable(analyzed_files)) =>
        ((upload_signature = _compute_upload_signature(analyzed_files))
            <=> SameArtifacts(uploaded_files, analyzed_files))

\* C16 as stated: a run of the ingestion step whose upload holds an unreadable
\* file stores no signature: upload_signature is left as it was.
C16_HardFailure ==
    [][(/\ uploaded_files' # uploaded_files
        /\ \E i \in 1..Len(uploaded_files') : uploaded_files'[i].closed) =>
            upload_signature' = upload_signature]_vars

\* A step in which analyze_notebook_image / analyze_multiple_images is called.
AnalysisInvoked ==
    /\ pass_parity' # pass_parity
    /\ last_pass' \in {"analyzed", "api_failed"}

\* C17: the analysis is called only when the upload signature differs from the
\* stored analysis signature or no result is stored; a successful analysis
\* stores the current signature; and while that result and signature are
\* stored, the same files uploaded in any order need no analysis, so a run of
\* the extraction step uses the stored result.
C17_CacheGating ==
    /\ [][AnalysisInvoked =>
            (upload_signature # analysis_signature \/ analysis_result = None)]_vars
    /\ [][(AnalysisInvoked /\ last_pass' = "analyzed") =>
            /\ analysis_signature' = upload_signature'
            /\ analysis_result' # None
            /\ ~need_analysis']_vars
    /\ []((/\ analysis_result # None
           /\ analysis_signature # None
           /\ uploaded_files # <<>>
           /\ IsPermutation(uploaded_files, analyzed_files)) => ~need_analysis)
    /\ [][(pass_parity' # pass_parity /\ ~need_analysis) =>
            /\ last_pass' = "cached"
            /\ UNCHANGED <<analysis_result, analysis_signature, analyzed_files>>]_vars

\* C17 witness: the extraction step has just used the stored analysis for the
\* analysed files uploaded again in another order.
C17_Witness ==
    /\ wizard_step = "extraction"
    /\ last_pass = "cached"
    /\ analysis_result = VisionAnalysis
    /\ Len(uploaded_files) >= 2
    /\ uploaded_files # analyzed_files
    /\ IsPermutation(uploaded_files, analyzed_files)

\* A click on Re-analyze.
ReanalyzeClicked ==
    /\ wizard_step = "extraction" /\ wizard_step' = "extraction"
    /\ analysis_result # None /\ analysis_result' = None

\* C18: Re-analyze clears the stored analysis signature and the stored result
\* and leaves the upload and its signature alone; the next run of the
\* extraction step then never uses a stored analysis, and calls the analysis
\* whenever the key check and the files check of lines 628-633 pass.
C18_ForceReanalyze ==
    /\ [][ReanalyzeClicked =>
            /\ analysis_signature' = None
            /\ UNCHANGED <<uploaded_files, upload_signature>>]_vars
    /\ []((forced /\ analysis_result = None) => need_analysis)
    /\ [][(forced /\ analysis_result = None /\ pass_parity' # pass_parity) =>
            /\ last_pass' # "cached"
            /\ (~KeyInvalid(api_key) /\ uploaded_files # <<>>) =>
                  last_pass' \in {"analyzed", "api_failed"}]_vars

\* C18 witness: after Re-analyze, with the upload untouched, the analysis ran
\* again on the files it had analysed before and its result is stored.
C18_Witness ==
    /\ forced
    /\ last_pass = "analyzed"
    /\ analysis_result = VisionAnalysis
    /\ analysis_signature = upload_signature
    /\ analyzed_files = uploaded_files
    /\ uploaded_files # <<>>

\* options entries the session result must have, by category.
RequiredCardinality(qtype) ==
    CASE qtype = "multiple_choice" -> 4
      [] qtype = "true_false" -> 2
      [] qtype = "short_answer" -> 0

\* the number of records of raws that have both question_text and correct_answer
CountComplete(raws) ==
    Cardinality({i \in 1..Len(raws) : ~LacksTextOrAnswer(raws[i])})

\* C19: _validate_question returns None for every record without question_text
\* or correct_answer (missing or empty); no such record is in the accepted
\* list or the result, every recorded fingerprint is that of an accepted
\* question, and a round adds no more than the complete records of its batch.
C19_NormalizerRejects ==
    /\ \A raw \in RawPool :
          LacksTextOrAnswer(raw) => _validate_question(raw) = NoQuestion
    /\ \A i \in 1..Len(all_questions) : ~LacksTextOrAnswer(all_questions[i])
    /\ \A i \in 1..Len(result) : ~LacksTextOrAnswer(result[i])
    /\ seen_questions
          = {_norm(all_questions[i].question_text) : i \in 1..Len(all_questions)}
    /\ (pc \in CategoryPhases /\ request # NoRequest) =>
          \A raws \in RawBatches :
             RoundAfterBatch(ValidatedResponse(raws)).added
                <= CountComplete(raws)

\* C19 witness: the oracle wrote a record without text or answer, and the
\* session returned at least one question but fewer than were requested.
C19_Witness ==
    /\ pc = "done"
    /\ dropped
    /\ Len(result) >= 1
    /\ Len(result) < total_requested

\* C20 as stated: every accepted and every returned question has as many
\* options as its final category requires (4, 2, 0).
C20_OptionsCardinality ==
    /\ \A i \in 1..Len(all_questions) :
          Len(all_questions[i].options)
             = RequiredCardinality(all_questions[i].question_type)
    /\ \A i \in 1..Len(result) :
          Len(result[i].options) = RequiredCardinality(result[i].question_type)

\* ------------------------------------------------------------ C21
\* The call of _validate_question has returned a normalized item.
Normalized == ~validating /\ validated # NoQuestion

\* correct_answer is one of the options of the normalized item
AnswerInOptions(item) ==
    \E i \in 1..Len(item.options) : item.options[i] = item.correct_answer

\* C21: for every normalized item, if correct_answer is an element of options
\* then options[correct_answer_index] is correct_answer, whether or not the
\* oracle supplied a correct_answer_index, whatever the order of the options
\* and whatever the category.
C21_AnswerIndexConsistent ==
    (Normalized /\ AnswerInOptions(validated)) =>
        /\ validated.correct_answer_index \in 0..(Len(validated.options) - 1)
        /\ validated.options[validated.correct_answer_index + 1]
             = validated.correct_answer

\* ------------------------------------------------------------ C23
\* C23: _validate_question has no side effects: once it has returned, with an
\* item or with None, the record passed to it is what it was when passed.
C23_NormalizerPure == ~validating => q_dict = q_passed

\* ------------------------------------------------------------ C24
\* The aliases the claim lists, with case, space and hyphen variants, and the
\* canonical category of each
AliasTable ==
    { <<"mc", "multiple_choice">>, <<"MC", "multiple_choice">>,
      <<"multiplechoice", "multiple_choice">>, <<"Multiple Choice", "multiple_choice">>,
      <<"multiple-choice", "multiple_choice">>, <<"multiple_choice", "multiple_choice">>,
      <<"tf", "true_false">>, <<"TF", "true_false">>, <<"truefalse", "true_false">>,
      <<"True-False", "true_false">>, <<"true_false", "true_false">>,
      <<"sa", "short_answer">>, <<"SA", "short_answer">>,
      <<"shortanswer", "short_answer">>, <<"Short Answer", "short_answer">>,
      <<"short_answer", "short_answer">>,
      <<"match", "matching">>, <<"pairs", "matching">>, <<"Pairs", "matching">>,
      <<"Matching", "matching">>, <<"matching", "matching">>,
      <<"fill", "fill_in_blank">>, <<"fillin", "fill_in_blank">>,
      <<"blank", "fill_in_blank">>, <<"fib", "fill_in_blank">>,
      <<"FIB", "fill_in_blank">>, <<"Fill-In-Blank", "fill_in_blank">>,
      <<"fill_in_blank", "fill_in_blank">> }

\* Type strings that are no alias of any category
Unrecognized == {"essay", "true/false"}

CanonicalSet ==
    { Chars(name) : name \in {"multiple_choice", "true_false", "short_answer",
                               "matching", "fill_in_blank"} }

\* C24: the category of a normalized item is in the closed canonical set; it
\* is the canonical category of the alias the oracle wrote, and
\* multiple_choice when the oracle wrote a string that is no alias.
C24_Canonicalisation ==
    Normalized =>
        /\ validated.question_type \in CanonicalSet
        /\ \A pair \in AliasTable :
              q_passed.question_type = Chars(pair[1])
                  => validated.question_type = Chars(pair[2])
        /\ \A name \in Unrecognized :
              q_passed.question_type = Chars(name)
                  => validated.question_type = Chars("multiple_choice")

\* An upper-case abbreviation was made fill_in_blank.
C24_Witness ==
    /\ Normalized
    /\ q_passed.question_type = Chars("FIB")
    /\ validated.question_type = Chars("fill_in_blank")

\* ------------------------------------------------------------ C22
\* The positions of all_questions this step appended
Appended == (Len(all_questions) + 1)..Len(all_questions')

\* What this step appended carries the category of the running loop, or
\* multiple_choice in the top-up, and what was accepted before is kept as it was.
CoercedStep ==
    /\ (pc \in CategoryPhases) =>
          (\A i \in Appended : all_questions'[i].question_type = CategoryOfPhase(pc))
    /\ (pc = "topup") =>
          (\A j \in Appended : all_questions'[j].question_type = "multiple_choice")
    /\ \A k \in 1..Len(all_questions) : all_questions'[k] = all_questions[k]

\* C22: every item accepted while the loop of a category runs carries that
\* category, whatever category the oracle claimed; every item the top-up
\* accepts carries multiple_choice; so every item of the result carries one of
\* the three quota categories.
C22_CategoryCoercion ==
    /\ [][CoercedStep]_vars
    /\ [](\A i \in 1..Len(result) : result[i].question_type \in QuestionTypes)

\* The oracle claimed true_false for everything; the result holds a
\* multiple_choice and a short_answer item.
C22_Witness ==
    /\ pc = "done"
    /\ \E i \in 1..Len(result) : result[i].question_type = "multiple_choice"
    /\ \E i \in 1..Len(result) : result[i].question_type = "short_answer"
    /\ \A claimed \in ClaimedTypes : claimed = "true_false"

\* ------------------------------------------------------------ C25
TextChars == {"A", "a", "b", " ", "\t"}

\* Every text of at most MaxLenText characters
AllTexts == UNION {[1..n -> TextChars] : n \in 0..MaxLenText}

\* The length of the first word of s (s does not start with whitespace)
RECURSIVE WordLen(_)
WordLen(s) ==
    IF s = <<>> \/ IsSpace(Head(s)) THEN 0 ELSE 1 + WordLen(Tail(s))

\* The words of s, lower-cased: what is left of a prompt once case, leading and
\* trailing whitespace and the length of whitespace runs are disregarded
RECURSIVE Words(_)
Words(s) ==
    LET r == LStrip(s)
    IN  IF r = <<>> THEN <<>>
        ELSE <<Lower(SubSeq(r, 1, WordLen(r)))>>
             \o Words(SubSeq(r, WordLen(r) + 1, Len(r)))

\* Two prompts that differ only in case and whitespace
NearDuplicates(s, t) == Words(s) = Words(t)

\* _norm is the fingerprint, is idempotent, and is blind to case and whitespace
NormLaws ==
    /\ \A s \in AllTexts :
          /\ _norm(s) = Fingerprint(s)
          /\ _norm(_norm(s)) = _norm(s)
    /\ \A s, t \in AllTexts : NearDuplicates(s, t) => _norm(s) = _norm(t)

\* C25: _norm(text) is lowercase(collapse_whitespace(trim(text))) for every
\* text, is idempotent, and is the same for prompts that differ only in case,
\* leading or trailing whitespace or the length of internal whitespace runs;
\* of such prompts a session accepts at most one.
C25_NearDuplicateCollapse ==
    /\ NormLaws
    /\ \A i, j \in 1..Len(all_questions) :
          NearDuplicates(all_questions[i].question_text,
                         all_questions[j].question_text) => i = j

\* A session that wanted two or more questions was offered other spellings of
\* the prompt it had accepted, and returned that one question.
C25_Witness ==
    /\ pc = "done"
    /\ total_requested >= 2
    /\ dup_offered
    /\ Len(result) = 1
    /\ NearDuplicates(result[1].question_text, <<"a", " ", "b">>)

\* ------------------------------------------------------------ C26
\* This step is the end of a round of the running loop: the call came back.
RoundEnds == pc \in CategoryPhases /\ request # NoRequest /\ request' = NoRequest

\* This step accepted nothing.
AcceptsNothing == Len(all_questions') = Len(all_questions)

\* A round that accepts something leaves the counter at 0, and a loop that
\* ends with its round ends after two rounds in a row that accepted nothing.
StagnationStep ==
    /\ (RoundEnds /\ ~AcceptsNothing /\ pc' = pc) => stagnant_rounds' = 0
    /\ (RoundEnds /\ pc' # pc) => (AcceptsNothing /\ round_added = 0)

\* C26: stagnation counts consecutive rounds only: a round that accepts an
\* item resets the counter, the loop leaves on stagnation only when its two
\* latest rounds both accepted nothing, and empty rounds with a productive
\* round between them do not end it.
C26_ConsecutiveStagnation ==
    /\ [][StagnationStep]_vars
    /\ []((pc \in CategoryPhases /\ round_added > 0) => stagnant_rounds = 0)

\* Three rounds of the first loop, none raised, one question accepted, the
\* latest round empty and the counter at 1: the rounds accepted 0, 1, 0 and
\* the loop goes on.
C26_Witness ==
    /\ pc = "mc"
    /\ request = NoRequest
    /\ ~failed
    /\ attempts = 3
    /\ Len(all_questions) = 1
    /\ round_added = 0
    /\ stagnant_rounds = 1
    /\ LoopContinues("mc")

\* ------------------------------------------------------------ C27
\* The running loop ends in this step.
LoopEnds == pc \in CategoryPhases /\ pc' # pc

\* The category of the running loop has its target.
Satisfied(questions) ==
    TypeCount(questions, CategoryOfPhase(pc)) >= TargetOf(CategoryOfPhase(pc))

\* A loop ends satisfied, at its attempt limit, or after two rounds in a row
\* that accepted nothing; a call is made only while the category is short.
TerminalStep ==
    /\ LoopEnds =>
          \/ Satisfied(all_questions')
          \/ attempts >= max_attempts(target(pc))
          \/ (RoundEnds /\ AcceptsNothing /\ round_added = 0)
    /\ (pc \in CategoryPhases /\ request = NoRequest /\ request' # NoRequest)
          => ~Satisfied(all_questions)

\* C27: a loop stops issuing calls only when its category has its target, when
\* max_attempts is reached, or when two consecutive rounds accepted nothing; a
\* category that ends short was exhausted, and a satisfied one gets no call.
C27_TerminalStates ==
    /\ [][TerminalStep]_vars
    /\ []((pc \in CategoryPhases /\ request # NoRequest) => ~Satisfied(all_questions))

\* The first loop has ended short of its target after max_attempts calls.
C27_Witness ==
    /\ pc = "tf"
    /\ attempts = 0
    /\ mc_count > 0
    /\ TypeCount(all_questions, "multiple_choice") < mc_count
    /\ total_calls = max_attempts(mc_count)

\* ------------------------------------------------------------ C28
\* C28: a category whose target is 0 gets no oracle call; a session whose
\* three targets are 0 makes no call, for a category or as a top-up, reports
\* no progress and returns the empty list.
C28_ZeroTargets ==
    /\ (pc \in CategoryPhases /\ target(pc) = 0) => (request = NoRequest /\ calls = 0)
    /\ total_requested = 0 =>
          /\ total_calls = 0
          /\ request = NoRequest
          /\ progress = <<>>
          /\ all_questions = <<>>
          /\ result = <<>>

\* A session with three targets of 0 has returned.
C28_Witness == pc = "done" /\ total_requested = 0 /\ result = <<>>

\* ------------------------------------------------------------ C29
\* C29: in play mode the score never exceeds total_questions * 10, the maximum
\* the game screen displays, after any sequence of start_game, answer and
\* next-question events.
C29_ScoreWithinMax == (game_mode = "play") => score <= Len(quiz_data) * 10

\* ------------------------------------------------------------ C30
\* C30: for mc_total + tf_total + sa_total >= 1 and an oracle that returns
\* exactly the requested questions of each type, every batch asks for
\* non-negative counts that sum to min(10, total - accumulated), none above
\* what its type still needs; exactly ceil(total / 10) batches are issued and
\* the counts asked for over all batches sum to mc_total, tf_total, sa_total.
C30_BatchPlanner ==
    (total_questions >= 1 /\ batch_exact) =>
        /\ in_batch # NoBatch =>
              /\ in_batch.mc >= 0 /\ in_batch.tf >= 0 /\ in_batch.sa >= 0
              /\ in_batch.mc + in_batch.tf + in_batch.sa
                   = Min(10, total_questions - legacy_len)
              /\ in_batch.mc <= mc_remaining
              /\ in_batch.tf <= tf_remaining
              /\ in_batch.sa <= sa_remaining
        /\ batch_num <= CeilDiv(total_questions, 10)
        /\ legacy_pc = "done" =>
              /\ batch_num = CeilDiv(total_questions, 10)
              /\ planned = [mc |-> mc_total, tf |-> tf_total, sa |-> sa_total]

\* Three batches for three types, every batch answered exactly, were enough.
C30_Witness ==
    /\ legacy_pc = "done"
    /\ batch_exact
    /\ batch_num = 3
    /\ mc_total > 0 /\ tf_total > 0 /\ sa_total > 0
    /\ planned = [mc |-> mc_total, tf |-> tf_total, sa |-> sa_total]

\* ------------------------------------------------------------ C31
\* The loop of category c is running or has finished.
LoopStarted(c) ==
    \E p \in CategoryPhases : expected_type(p) = c /\ PhaseRank(pc) >= PhaseRank(p)

\* The list never outgrows the sum of the targets, so line 566 cuts nothing
\* and no report has a first argument above its second.
WithinTotal ==
    /\ Len(all_questions) <= total_requested
    /\ (pc = "done" => result = all_questions)
    /\ \A i \in 1..Len(progress) : progress[i][1] <= progress[i][2]

\* C31 as stated: at every point of the session the accepted list holds at
\* most target[c] questions of each category whose loop is running or has
\* finished and at most the sum of the targets in all; the trim removes
\* nothing and no progress report has a first argument above its second.
C31_AcceptedWithinTargets ==
    /\ \A c \in QuestionTypes :
          LoopStarted(c) => TypeCount(all_questions, c) <= TargetOf(c)
    /\ WithinTotal

\* The top-up call has returned.
TopUpDone == pc \in {"trim", "done"} /\ calls > 0

\* C31 amended: the bound per category holds for true_false and short_answer
\* throughout and for multiple_choice until the top-up call returns; from
\* then on multiple_choice is bounded by the sum of the targets only.  The
\* total bound, the idle trim and the progress bound hold throughout.
C31_AcceptedAmended ==
    /\ \A c \in QuestionTypes :
          (LoopStarted(c) /\ ~(c = "multiple_choice" /\ TopUpDone))
              => TypeCount(all_questions, c) <= TargetOf(c)
    /\ \A c \in QuestionTypes : TypeCount(all_questions, c) <= total_requested
    /\ WithinTotal

\* C31 witness: a returned list that is the whole accepted list, filled to
\* the sum of the targets by a top-up that took multiple_choice past its
\* target, every report made.
C31_Witness ==
    /\ pc = "done"
    /\ TopUpDone
    /\ result = all_questions
    /\ Len(result) = total_requested
    /\ Len(progress) = total_requested
    /\ TypeCount(all_questions, "multiple_choice") > mc_count

\* ------------------------------------------------------------ C32
\* The fingerprints of the questions of a list.
FingerprintsOf(questions) ==
    {Fingerprint(questions[i].question_text) : i \in 1..Len(questions)}

\* What the loop of the running category leaves of batch.
AfterBatch(batch) ==
    CategoryBatch(batch, expected_type(pc), target(pc), [st |-> Current, added |-> 0]).st

\* The running category is at its target once the first k questions of batch
\* have been through the loop.
AtTargetAfter(batch, k) ==
    TypeCount(AfterBatch(SubSeq(batch, 1, k)).all_questions, expected_type(pc))
        >= target(pc)

\* C32: the fingerprint set is exactly the set of fingerprints of the
\* accepted questions and has as many elements as the list has questions;
\* whatever batch a category call returns, the questions that come after the
\* one that took the category to its target are neither accepted nor recorded.
C32_FingerprintSetExact ==
    /\ seen_questions = FingerprintsOf(all_questions)
    /\ Cardinality(seen_questions) = Len(all_questions)
    /\ (pc \in CategoryPhases /\ request # NoRequest) =>
          \A batch \in Batches : \A k \in 1..Len(batch) :
              AtTargetAfter(batch, k) =>
                  /\ AfterBatch(batch) = AfterBatch(SubSeq(batch, 1, k))
                  /\ AfterBatch(batch).seen_questions
                        = FingerprintsOf(AfterBatch(batch).all_questions)

\* C32 witness: a call of a later category is in flight, the session holds an
\* accepted question, and a batch of two new, different questions would take
\* the category to its target with its first question.
C32_Witness ==
    /\ pc \in CategoryPhases
    /\ request # NoRequest
    /\ Len(all_questions) >= 1
    /\ \E batch \in Batches :
          /\ Len(batch) = 2
          /\ Fingerprint(batch[1].question_text) \notin seen_questions \cup {<<>>}
          /\ Fingerprint(batch[2].question_text) \notin seen_questions \cup {<<>>}
          /\ Fingerprint(batch[1].question_text) # Fingerprint(batch[2].question_text)
          /\ AtTargetAfter(batch, 1)
          /\ Len(AfterBatch(batch).all_questions) = Len(all_questions) + 1
          /\ Fingerprint(batch[2].question_text) \notin AfterBatch(batch).seen_questions

CacheHit == last_pass' = "cached" /\ pass_parity' # pass_parity

\* C34: whenever the extraction step skips the analysis as a cache hit, the
\* stored result is the one the analysis computed, and it computed it from
\* files whose signature is the current upload signature.
C34_CacheCoherent ==
    [][CacheHit =>
          /\ analysis_result = VisionAnalysis
          /\ analyzed_files # <<>>
          /\ _compute_upload_signature(analyzed_files) = upload_signature]_vars

\* ------------------------------------------------------------ C35
\* render_extraction_step runs to line 620 in this step and the analysis
\* raises: the key is invalid, no file is stored, or the call fails.
FailedPass ==
    /\ pass_parity' # pass_parity
    /\ last_pass' \in {"rejected", "api_failed"}

\* C35: a pass whose analysis raises changes neither the stored signature
\* nor the stored result, and leaves a state in which the extraction step
\* needs the analysis: a pass that follows a failed one with the uploads and
\* the stored result as they were is never a cache hit.
C35_FailureKeepsCache ==
    /\ [][FailedPass =>
            /\ analysis_signature' = analysis_signature
            /\ analysis_result' = analysis_result
            /\ \/ upload_signature' # analysis_signature'
               \/ analysis_result' = None]_vars
    /\ [][(/\ last_pass \in {"rejected", "api_failed"}
           /\ pass_parity' # pass_parity
           /\ (upload_signature # analysis_signature \/ analysis_result = None))
              => last_pass' # "cached"]_vars

\* C35 witness: the analysis call has just failed on a new upload while the
\* result and the signature of an earlier upload are stored.
C35_Witness ==
    /\ last_pass = "api_failed"
    /\ analysis_result = VisionAnalysis
    /\ analysis_signature # None
    /\ upload_signature # analysis_signature
    /\ wizard_step = "extraction"

\* ------------------------------------------------------------ C36
\* C36: _validate_question accepts what it has returned and returns it as it
\* is: same question_type, options, correct_answer_index, explanation and
\* misconception_tag, and every other key; the second call writes nothing
\* new into the dict either.
C36_NormalizerIdempotent ==
    Normalized =>
        /\ _validate_question(validated) # NoQuestion
        /\ _validate_question(validated) = validated
        /\ QuestionAfter(validated) = validated

\* C36 witness: the first call rewrote the type, padded the options and
\* computed the index of a multiple-choice record written with two options.
C36_Witness ==
    /\ Normalized
    /\ q_passed.question_type = Chars("MC")
    /\ "options" \in DOMAIN q_passed /\ q_passed.options = <<"b", "a">>
    /\ "correct_answer_index" \notin DOMAIN q_passed
    /\ validated.question_type = MultipleChoice
    /\ validated.options = <<"b", "a", "", "">>
    /\ validated.correct_answer_index = 1

\* ------------------------------------------------------------ C37
\* Two questions agree on category, prompt, options, correct_answer and
\* correct_answer_index.
SameQuestion(a, b) ==
    /\ a.question_type = b.question_type
    /\ a.question_text = b.question_text
    /\ a.options = b.options
    /\ a.correct_answer = b.correct_answer
    /\ a.correct_answer_index = b.correct_answer_index

\* C37: the editor step run without an edit leaves the generated quiz as it
\* was: as many questions, in the same order, each with the category,
\* prompt, options, correct_answer and correct_answer_index it had.
C37_EditorRoundTrip ==
    /\ Len(quiz_data) = Len(generated)
    /\ \A i \in 1..Len(generated) : SameQuestion(quiz_data[i], generated[i])

\* ------------------------------------------------------------ C38
\* A text written by create_json_export has been imported.
RoundTrip == exported # NoQuestion /\ imported # NoQuestion

\* The imported metadata is the exported one with schema_version added and
\* nothing else changed.
MetadataExtended ==
    LET given == IF exported.metadata = NoQuestion THEN <<>> ELSE exported.metadata
    IN  /\ DOMAIN imported.metadata = DOMAIN given \cup {"schema_version"}
        /\ \A k \in DOMAIN given : imported.metadata[k] = given[k]

\* The imported metadata is the exported one with schema_version set to
\* QUIZ_SCHEMA_VERSION.
MetadataStamped ==
    LET given == IF exported.metadata = NoQuestion THEN <<>> ELSE exported.metadata
    IN  /\ DOMAIN imported.metadata = DOMAIN given \cup {"schema_version"}
        /\ imported.metadata["schema_version"] = QUIZ_SCHEMA_VERSION
        /\ \A k \in DOMAIN given \ {"schema_version"} :
               imported.metadata[k] = given[k]

\* A text json.loads rejects, a value that is neither object nor array, or an
\* object without a "questions" array.
UnrecognizedText(text) ==
    \/ ~text.valid
    \/ text.data.kind \notin {"object", "array"}
    \/ /\ text.data.kind = "object"
       /\ \/ "questions" \notin DOMAIN text.data.value
          \/ text.data.value["questions"].kind # "array"

\* An unrecognized text is rejected with ValueError.
Rejected ==
    (imported # NoQuestion /\ UnrecognizedText(json_string)) => imported = ValueError

\* C38: importing an exported text returns the same questions in the same
\* order, the same quiz settings and game state, and the metadata extended
\* only by schema_version; an unrecognized text is rejected with ValueError.
C38_JsonRoundTrip ==
    /\ RoundTrip =>
          /\ imported # ValueError
          /\ imported.questions = exported.questions
          /\ imported.quiz_settings = exported.quiz_settings
          /\ imported.game_state = exported.game_state
          /\ MetadataExtended
    /\ Rejected

\* C38, amended: the questions come back the same; quiz settings and game
\* state come back the same when they are non-empty and as None otherwise; the
\* metadata comes back with schema_version set to QUIZ_SCHEMA_VERSION and its
\* other keys unchanged; an unrecognized text is rejected with ValueError.
C38_JsonRoundTripAmended ==
    /\ RoundTrip =>
          /\ imported # ValueError
          /\ imported.questions = exported.questions
          /\ imported.quiz_settings =
                 (IF Truthy(exported.quiz_settings) THEN exported.quiz_settings
                  ELSE NoQuestion)
          /\ imported.game_state =
                 (IF Truthy(exported.game_state) THEN exported.game_state
                  ELSE NoQuestion)
          /\ MetadataStamped
    /\ Rejected

\* A quiz of two questions exported with metadata, settings and game state
\* has been imported.
C38_Witness ==
    /\ RoundTrip
    /\ Len(exported.questions) = 2
    /\ Truthy(exported.metadata)
    /\ Truthy(exported.quiz_settings)
    /\ Truthy(exported.game_state)
    /\ imported.questions = exported.questions

\* ------------------------------------------------------------ C39
\* A step in which an answer is submitted
AnswerStep == ~answer_submitted /\ answer_submitted'

\* check_answer on the question shown and the answer the step stores
AnsweredCorrectly ==
    check_answer(selected_answer', current_q.correct_answer_index,
                 user_text_answer', current_q.correct_answer,
                 current_q.question_type)

\* A step that enters play mode from the action step or from the results
StartStep ==
    /\ game_mode' = "play" /\ wizard_step' = "play"
    /\ game_mode = "setup" \/ wizard_step = "results"

\* C39: 0 <= streak <= max_streak always; a correct answer adds 1 to streak
\* and 10 + min(previous streak, 5) to score; a wrong answer sets streak to 0,
\* appends the question to wrong_answers and leaves score and max_streak as
\* they were; start_game resets score, streak, max_streak, wrong_answers and
\* the question index.
C39_GameInvariants ==
    /\ [](0 <= streak /\ streak <= max_streak)
    /\ [][(AnswerStep /\ AnsweredCorrectly) =>
             /\ streak' = streak + 1
             /\ score' = score + 10 + Min(streak, 5)]_vars
    /\ [][(AnswerStep /\ ~AnsweredCorrectly) =>
             /\ streak' = 0
             /\ wrong_answers' = Append(wrong_answers, current_q)
             /\ score' = score
             /\ max_streak' = max_streak]_vars
    /\ [][StartStep =>
             /\ score' = 0
             /\ streak' = 0
             /\ max_streak' = 0
             /\ wrong_answers' = <<>>
             /\ current_question_index' = 0]_vars

\* Two correct answers, then a wrong one: the streak is back at 0, the
\* longest streak is 2 and the score is 10 + 11.
C39_Witness ==
    /\ Len(answered) = 3
    /\ answered[1].correct /\ answered[2].correct /\ ~answered[3].correct
    /\ streak = 0
    /\ max_streak = 2
    /\ score = 21
    /\ Len(wrong_answers) = 1

\* ------------------------------------------------------------ C40
\* The results screen of a game
AtResults == game_mode = "play" /\ wizard_step = "results"

\* The number of answers found correct since start_game
CorrectAnswers == Len(SelectSeq(answered, LAMBDA a : a.correct))

\* C40: in a game started by start_game no question is scored twice; no
\* answer is processed while answer_submitted holds; the index advances by
\* one and only after an answer was submitted; while a question of the quiz
\* is shown the index is below the number of questions; the results screen is
\* reached only with every question answered once, and there
\* total_questions - len(wrong_answers) is the number of correct answers.
C40_ScoredOnce ==
    /\ [](\A i, j \in 1..Len(answered) :
             i # j => answered[i].index # answered[j].index)
    /\ [][answer_submitted => Len(answered') <= Len(answered)]_vars
    /\ [][current_question_index' > current_question_index =>
             /\ answer_submitted
             /\ current_question_index' = current_question_index + 1]_vars
    /\ []((game_mode = "play" /\ wizard_step = "play" /\ quiz_data # <<>>) =>
             current_question_index < Len(quiz_data))
    /\ [](AtResults =>
             /\ Len(answered) = Len(quiz_data)
             /\ \A i \in 1..Len(answered) : answered[i].index = i - 1
             /\ Len(quiz_data) - Len(wrong_answers) = CorrectAnswers)

\* The results screen of a quiz of three questions, one of them answered
\* wrongly.
C40_Witness ==
    /\ AtResults
    /\ Len(quiz_data) = 3
    /\ Len(answered) = 3
    /\ Len(wrong_answers) = 1
    /\ CorrectAnswers = 2

====
